---------------------------- MODULE Spec2Model ----------------------------
(***************************************************************************)
(* Model of the finance assistant: the query-analysis pipeline of          *)
(* src/services/huggingface_service.py (intent classification by keyword   *)
(* scoring, lexicon sentiment, keyword and entity extraction, the optional *)
(* sentiment adapter with its fallbacks), the response templates, the      *)
(* budget summary and spending insights, the UserProfile of                *)
(* src/models/user_profile.py with its enum setters and goals, the         *)
(* ProfileService of src/services/profile_service.py and the chat page of  *)
(* src/pages/chat.py.                                                      *)
(*                                                                         *)
(* Python strings are TLA+ strings; the string operations of the code      *)
(* (lower, in, split, re.findall) are computed character by character.     *)
(* Confidences are in hundredths: 0.7 is 70, 0.6 is 60, 0.8 is 80.         *)
(***************************************************************************)
EXTENDS Integers, Sequences, FiniteSets, TLC

VARIABLES
    lightweight_mode,       \* HuggingFaceFinanceService.lightweight_mode
    sentiment_analyzer,     \* HuggingFaceFinanceService.sentiment_analyzer
    query,                  \* the text the caller passes
    adapter_reply,          \* what the adapter replied in the last call
    result,                 \* outcome of the last analyze_financial_query call
    profile,                \* the session's UserProfile object
    setter_call,            \* the last call of a UserProfile enum setter
    response,               \* the last generate_personalized_response call
    summary,                \* the last generate_budget_summary call
    insights,               \* the last get_spending_insights call
    calls,                  \* the analyze_financial_query calls made so far
    goal_calls,             \* the add_financial_goal calls made on the profile
    service_tables,         \* the service's financial_intents and response_templates
    pc,                     \* where the running analyze_financial_query call is
    disk,                   \* the data directory of the ProfileService
    persistence_call,       \* the last save_profile or load_profile call
    session_state,          \* st.session_state of the chat page
    requests                \* the runs of the chat page: the run that ended last, or
                            \* the runs under way, each with its position

vars == <<lightweight_mode, sentiment_analyzer, query, adapter_reply, result,
          profile, setter_call, response, summary, insights, calls,
          goal_calls, service_tables, pc, disk, persistence_call, session_state,
          requests>>

\* the variables of the query analysis, and those of the profile and its views
analysis_vars == <<lightweight_mode, sentiment_analyzer, query, adapter_reply, result>>

profile_vars == <<profile, setter_call, response, summary, insights, calls>>

\* the variables of the application around them: the goals added, the service's
\* tables, the running call, the stored profiles and the chat page
app_vars == <<goal_calls, service_tables, pc, disk, persistence_call, session_state,
             requests>>

(***************************************************************************)
(* Bounds of the model                                                     *)
(***************************************************************************)
\* A query is at most MaxPhrases phrases of Phrases, joined by single spaces.
MaxPhrases == 2

\* A profile is given at most MaxGoals financial goals.
MaxGoals == 2

\* A service instance is followed over at most MaxCalls analysis calls.
MaxCalls == 3

\* A chat history is followed up to MaxMessages messages.
MaxMessages == 4

\* MaxRequests chat inputs of one session are handled at the same time.
MaxRequests == 2

(***************************************************************************)
(* Python string operations                                                *)
(***************************************************************************)
Char(s, i) == SubSeq(s, i, i)

\* p in s
Contains(s, p) ==
    \E i \in 1..(Len(s) - Len(p) + 1) : SubSeq(s, i, i + Len(p) - 1) = p

UpperChars == "ABCDEFGHIJKLMNOPQRSTUVWXYZ"
LowerChars == "abcdefghijklmnopqrstuvwxyz"
Digits == "0123456789"

UpperToLower ==
    [c \in {Char(UpperChars, i) : i \in 1..26} |->
        Char(LowerChars, CHOOSE i \in 1..26 : Char(UpperChars, i) = c)]

LowerChar(c) == IF c \in DOMAIN UpperToLower THEN UpperToLower[c] ELSE c

RECURSIVE LowerFrom(_, _)
LowerFrom(s, i) ==
    IF i > Len(s) THEN "" ELSE LowerChar(Char(s, i)) \o LowerFrom(s, i + 1)

\* s.lower()
Lower(s) == LowerFrom(s, 1)

\* the characters the regular expression class \w matches
WordChars ==
    {Char(LowerChars, i) : i \in 1..26} \cup {Char(UpperChars, i) : i \in 1..26}
        \cup {Char(Digits, i) : i \in 1..10} \cup {"_"}

RECURSIVE FindWords(_, _, _)
FindWords(s, i, cur) ==
    IF i > Len(s)
    THEN IF cur = "" THEN <<>> ELSE <<cur>>
    ELSE IF Char(s, i) \in WordChars
         THEN FindWords(s, i + 1, cur \o Char(s, i))
         ELSE IF cur = "" THEN FindWords(s, i + 1, "")
              ELSE <<cur>> \o FindWords(s, i + 1, "")

\* re.findall(r'\b\w+\b', s): the maximal runs of word characters, in order
re_findall_words(s) == FindWords(s, 1, "")

RECURSIVE IndexOf(_, _, _)
IndexOf(s, c, i) ==
    IF i > Len(s) THEN 0 ELSE IF Char(s, i) = c THEN i ELSE IndexOf(s, c, i + 1)

\* faulty variant: s.split(sep)[1], the part after the first separator
SplitFirst_Second(s, sep) ==
    LET k == IndexOf(s, sep, 1) IN IF k = 0 THEN s ELSE SubSeq(s, k + 1, Len(s))

\* s.split(sep)[0] for a one-character sep
SplitFirst(s, sep) ==
    LET k == IndexOf(s, sep, 1) IN IF k = 0 THEN s ELSE SubSeq(s, 1, k - 1)

RECURSIVE SplitWords(_, _, _)
SplitWords(s, i, cur) ==
    IF i > Len(s)
    THEN IF cur = "" THEN <<>> ELSE <<cur>>
    ELSE IF Char(s, i) # " "
         THEN SplitWords(s, i + 1, cur \o Char(s, i))
         ELSE IF cur = "" THEN SplitWords(s, i + 1, "")
              ELSE <<cur>> \o SplitWords(s, i + 1, "")

\* s.split(): the maximal runs of non-blank characters, in order
py_split(s) == SplitWords(s, 1, "")

\* seq[:n]
Take(seq, n) == SubSeq(seq, 1, IF Len(seq) < n THEN Len(seq) ELSE n)

\* sum(1 for word in words if word in text_lower)
CountContained(words, text_lower) ==
    Cardinality({i \in 1..Len(words) : Contains(text_lower, words[i])})

RECURSIVE ReplaceFrom(_, _, _, _)
ReplaceFrom(s, old, new, i) ==
    IF i > Len(s) THEN ""
    ELSE IF i + Len(old) - 1 <= Len(s) /\ SubSeq(s, i, i + Len(old) - 1) = old
         THEN new \o ReplaceFrom(s, old, new, i + Len(old))
         ELSE Char(s, i) \o ReplaceFrom(s, old, new, i + 1)

\* every occurrence of old in s replaced by new, left to right
Replace(s, old, new) == ReplaceFrom(s, old, new, 1)

(***************************************************************************)
(* The lexicon (HuggingFaceFinanceService.__init__ and the word lists of   *)
(* the analysis methods), in declaration order                             *)
(***************************************************************************)
financial_intents == <<
    [intent |-> "savings_advice",
     keywords |-> <<"save", "saving", "savings", "emergency fund", "rainy day">>],
    [intent |-> "investment_advice",
     keywords |-> <<"invest", "investment", "portfolio", "stocks", "bonds", "retirement", "401k">>],
    [intent |-> "budgeting_help",
     keywords |-> <<"budget", "expense", "spending", "monthly", "track", "money">>],
    [intent |-> "debt_management",
     keywords |-> <<"debt", "loan", "credit", "pay off", "consolidate", "student loan">>],
    [intent |-> "tax_planning",
     keywords |-> <<"tax", "deduction", "IRS", "filing", "refund", "tax return">>],
    [intent |-> "financial_education",
     keywords |-> <<"learn", "explain", "what is", "how does", "understand">>] >>

positive_words ==
    <<"good", "great", "excited", "happy", "awesome", "excellent", "love", "like", "want", "help">>

negative_words ==
    <<"bad", "terrible", "worried", "concerned", "problem", "debt", "struggling", "confused", "lost">>

financial_terms == <<
    "save", "saving", "savings", "invest", "investment", "budget", "money",
    "debt", "loan", "credit", "tax", "retirement", "emergency", "fund",
    "stock", "bond", "portfolio", "income", "expense", "financial",
    "dollar", "cash", "bank", "account", "401k", "ira" >>

entity_patterns == <<
    [entity |-> "MONEY", patterns |-> <<"$", "dollar", "money", "income", "salary">>],
    [entity |-> "PERCENTAGE", patterns |-> <<"%", "percent", "rate">>],
    [entity |-> "TIME", patterns |-> <<"month", "year", "monthly", "annual", "weekly">>],
    [entity |-> "FINANCIAL_PRODUCT",
     patterns |-> <<"401k", "ira", "savings account", "credit card", "loan">>] >>

label_mapping ==
    [l \in {"LABEL_0", "LABEL_1", "LABEL_2", "NEGATIVE", "NEUTRAL", "POSITIVE"} |->
        CASE l \in {"LABEL_0", "NEGATIVE"} -> "negative"
          [] l \in {"LABEL_1", "NEUTRAL"} -> "neutral"
          [] l \in {"LABEL_2", "POSITIVE"} -> "positive"]

(***************************************************************************)
(* Python exceptions: a computation either returns a value or raises       *)
(***************************************************************************)
Returned(v) == [status |-> "returned", value |-> v]
Raised(e) == [status |-> "raised", error |-> e]
NoCall == [status |-> "none"]

(***************************************************************************)
(* The optional sentiment adapter (a transformers pipeline).  A call of it *)
(* either raises or returns a list of dicts; what it replies is the        *)
(* environment's choice.                                                   *)
(***************************************************************************)
AdapterLabels == {"LABEL_0", "NEUTRAL", "POSITIVE", "Mixed"}

AdapterScores == {98}

AdapterReplies ==
    {Raised("RuntimeError"), Returned(<<>>)}
        \cup {Returned(<<[score |-> c]>>) : c \in AdapterScores}
        \cup {Returned(<<[label |-> l]>>) : l \in {"POSITIVE"}}
        \cup {Returned(<<[label |-> l, score |-> c]>>) : l \in AdapterLabels, c \in AdapterScores}

\* the adapter was not consulted (sentiment_analyzer is None)
NotCalled == [status |-> "not_called"]

(***************************************************************************)
(* HuggingFaceFinanceService: the analysis methods                         *)
(***************************************************************************)
\* faulty variant: ties go to positive (>= for >)
_fallback_sentiment_analysis_TiesPositive(text) ==
    LET text_lower == Lower(text)
        positive_count == CountContained(positive_words, text_lower)
        negative_count == CountContained(negative_words, text_lower)
    IN  IF positive_count >= negative_count THEN [label |-> "positive", score |-> 70]
        ELSE IF negative_count > positive_count THEN [label |-> "negative", score |-> 70]
        ELSE [label |-> "neutral", score |-> 60]

\* faulty variant: the negative branch carries the neutral confidence
_fallback_sentiment_analysis_NegativeLow(text) ==
    LET text_lower == Lower(text)
        positive_count == CountContained(positive_words, text_lower)
        negative_count == CountContained(negative_words, text_lower)
    IN  IF positive_count > negative_count THEN [label |-> "positive", score |-> 70]
        ELSE IF negative_count > positive_count THEN [label |-> "negative", score |-> 60]
        ELSE [label |-> "neutral", score |-> 60]

_fallback_sentiment_analysis(text) ==
    LET text_lower == Lower(text)
        positive_count == CountContained(positive_words, text_lower)
        negative_count == CountContained(negative_words, text_lower)
    IN  IF positive_count > negative_count THEN [label |-> "positive", score |-> 70]
        ELSE IF negative_count > positive_count THEN [label |-> "negative", score |-> 70]
        ELSE [label |-> "neutral", score |-> 60]

\* label_mapping.get(label, label.lower())
label_mapping_get(label) ==
    IF label \in DOMAIN label_mapping THEN label_mapping[label] ELSE Lower(label)

\* The try block of _analyze_sentiment: the adapter's reply indexed by [0],
\* its 'label' read and rewritten.  Raised(..) is what the except clause sees.
adapter_sentiment(reply) ==
    IF reply.status = "raised" THEN reply
    ELSE IF Len(reply.value) = 0 THEN Raised("IndexError")
    ELSE LET res == reply.value[1]
         IN  IF "label" \notin DOMAIN res THEN Raised("KeyError")
             ELSE Returned([res EXCEPT !.label = label_mapping_get(res.label)])

_analyze_sentiment(text, analyzer, reply) ==
    IF analyzer # "None" /\ adapter_sentiment(reply).status = "returned"
    THEN adapter_sentiment(reply).value
    ELSE _fallback_sentiment_analysis(text)

\* faulty variant: of the items with the highest score the last one wins
PyMaxByScore_LastWins(items) ==
    LET k == CHOOSE i \in 1..Len(items) :
                /\ \A j \in 1..Len(items) : items[j].score <= items[i].score
                /\ \A j \in (i + 1)..Len(items) : items[j].score < items[i].score
    IN  items[k]

\* max(items, key=score): the first item whose score no other item exceeds
PyMaxByScore(items) ==
    LET k == CHOOSE i \in 1..Len(items) :
                /\ \A j \in 1..Len(items) : items[j].score <= items[i].score
                /\ \A j \in 1..(i - 1) : items[j].score < items[i].score
    IN  items[k]

\* faulty variant: intents without a match are scored too (the score > 0 test dropped)
_classify_intent_NoThreshold(q) ==
    LET query_lower == Lower(q)
        intent_scores == [i \in 1..Len(financial_intents) |->
                     [intent |-> financial_intents[i].intent,
                      score |-> CountContained(financial_intents[i].keywords, query_lower)]]
    IN  IF Len(intent_scores) > 0
        THEN LET best_intent == PyMaxByScore(intent_scores).intent
             IN  <<best_intent, SplitFirst(best_intent, "_")>>
        ELSE <<"general_financial_advice", "general">>

_classify_intent(q) ==
    LET query_lower == Lower(q)
        scored == [i \in 1..Len(financial_intents) |->
                     [intent |-> financial_intents[i].intent,
                      score |-> CountContained(financial_intents[i].keywords, query_lower)]]
        intent_scores == SelectSeq(scored, LAMBDA item : item.score > 0)
    IN  IF Len(intent_scores) > 0
        THEN LET best_intent == PyMaxByScore(intent_scores).intent
             IN  <<best_intent, SplitFirst(best_intent, "_")>>
        ELSE <<"general_financial_advice", "general">>

IsFinancialTerm(word) == \E i \in 1..Len(financial_terms) : financial_terms[i] = word

\* faulty variant: every financial token is returned (the [:5] dropped)
keywords_try_NoCap(text) ==
    LET words == re_findall_words(Lower(text))
        keywords == SelectSeq(words, IsFinancialTerm)
    IN  Returned(keywords)

\* The try block of _extract_keywords.  re.findall does not raise on a str.
keywords_try(text) ==
    LET words == re_findall_words(Lower(text))
        keywords == SelectSeq(words, IsFinancialTerm)
    IN  Returned(Take(keywords, 5))

\* faulty variant: an empty keyword list is replaced by the first 3 raw tokens
_extract_keywords_RawFallback(text) ==
    LET body == keywords_try(text)
    IN  IF body.status = "raised" \/ body.value = <<>>
        THEN Take(py_split(text), 3) ELSE body.value

_extract_keywords(text) ==
    LET body == keywords_try(text)
    IN  IF body.status = "raised" THEN Take(py_split(text), 3) ELSE body.value

\* faulty variant: the scan of a type's patterns stops at the first match
RECURSIVE MatchPatterns_FirstOnly(_, _, _, _)
MatchPatterns_FirstOnly(text_lower, entity_type, patterns, k) ==
    IF k > Len(patterns) THEN <<>>
    ELSE IF Contains(text_lower, patterns[k])
         THEN <<[entity |-> entity_type, value |-> patterns[k], confidence |-> 80]>>
         ELSE MatchPatterns_FirstOnly(text_lower, entity_type, patterns, k + 1)

RECURSIVE MatchPatterns(_, _, _, _)
MatchPatterns(text_lower, entity_type, patterns, k) ==
    IF k > Len(patterns) THEN <<>>
    ELSE (IF Contains(text_lower, patterns[k])
          THEN <<[entity |-> entity_type, value |-> patterns[k], confidence |-> 80]>>
          ELSE <<>>) \o MatchPatterns(text_lower, entity_type, patterns, k + 1)

RECURSIVE MatchTypes(_, _)
MatchTypes(text_lower, t) ==
    IF t > Len(entity_patterns) THEN <<>>
    ELSE MatchPatterns(text_lower, entity_patterns[t].entity, entity_patterns[t].patterns, 1)
             \o MatchTypes(text_lower, t + 1)

_extract_entities(text) == MatchTypes(Lower(text), 1)

_fallback_query_analysis(q) ==
    LET ic == _classify_intent(q)
        sentiment == _fallback_sentiment_analysis(q)
    IN  [original_query |-> q,
         intent |-> ic[1],
         entities |-> <<>>,
         keywords |-> _extract_keywords(q),
         sentiment |-> sentiment.label,
         confidence |-> sentiment.score,
         category |-> ic[2]]

\* The try block of analyze_financial_query.  sentiment_result['score'] raises
\* KeyError when the adapter's dict has no score.
analyze_try(q, user_profile, analyzer, reply) ==
    LET sentiment_result == _analyze_sentiment(q, analyzer, reply)
        ic == _classify_intent(q)
    IN  IF "score" \notin DOMAIN sentiment_result THEN Raised("KeyError")
        ELSE Returned([original_query |-> q,
                       intent |-> ic[1],
                       entities |-> _extract_entities(q),
                       keywords |-> _extract_keywords(q),
                       sentiment |-> Lower(sentiment_result.label),
                       confidence |-> sentiment_result.score,
                       category |-> ic[2]])

\* faulty variant: no except clause, the KeyError propagates
analyze_financial_query_NoExcept(q, user_profile, analyzer, reply) ==
    analyze_try(q, user_profile, analyzer, reply)

\* faulty variant: the instance counts its calls and lowers the confidence
analyze_financial_query_Counting(q, user_profile, analyzer, reply) ==
    LET body == analyze_try(q, user_profile, analyzer, reply)
        answer == IF body.status = "raised" THEN _fallback_query_analysis(q) ELSE body.value
    IN  Returned([answer EXCEPT !.confidence = @ - Len(calls)])

analyze_financial_query(q, user_profile, analyzer, reply) ==
    LET body == analyze_try(q, user_profile, analyzer, reply)
    IN  IF body.status = "raised" THEN Returned(_fallback_query_analysis(q)) ELSE body

(***************************************************************************)
(* Python objects held by a UserProfile: None, strings, numbers and the    *)
(* members of the enum classes of src/models/user_profile.py               *)
(***************************************************************************)
PyNone == [type |-> "NoneType"]

PyStr(s) == [type |-> "str", value |-> s]

PyNum(n) == [type |-> "int", value |-> n]

\* the values of the members of each enum class
EnumValues ==
    [UserType           |-> {"student", "professional"},
     AgeRange           |-> {"18-25", "26-35", "36-50", "51+"},
     IncomeLevel        |-> {"0-15000", "15001-30000", "30001-60000", "60001-100000", "100000+"},
     RiskTolerance      |-> {"conservative", "moderate", "aggressive"},
     CommunicationStyle |-> {"simple", "detailed"}]

\* the member of class cls whose value is v
Member(cls, v) == [type |-> cls, value |-> v]

\* cls(v), the lookup of a member by its value: ValueError when there is none
EnumCall(cls, v) ==
    IF v \in EnumValues[cls] THEN Returned(Member(cls, v)) ELSE Raised("ValueError")

\* self.response_templates, keyed by the value of the UserType member
response_templates ==
    [student |->
        [tone |-> "friendly and educational",
         complexity |-> "simple",
         focus_areas |-> <<"budgeting basics", "student loans", "part-time income",
                           "saving tips">>],
     professional |->
        [tone |-> "professional and detailed",
         complexity |-> "advanced",
         focus_areas |-> <<"investment strategies", "tax optimization",
                           "retirement planning", "portfolio management">>]]

\* the two tables __init__ builds on the service instance
ServiceTables ==
    [financial_intents |-> financial_intents, response_templates |-> response_templates]

(***************************************************************************)
(* UserProfile (src/models/user_profile.py).  The attributes location and   *)
(* employment_status are never read and are left out.                      *)
(***************************************************************************)
\* UserProfile.__init__
UserProfile ==
    [type                     |-> "UserProfile",
     user_id                  |-> PyNone,
     name                     |-> PyNone,
     user_type                |-> PyNone,
     age_range                |-> PyNone,
     income_level             |-> PyNone,
     financial_goals          |-> <<>>,
     risk_tolerance           |-> PyNone,
     communication_preference |-> PyNone,
     monthly_expenses         |-> PyNone,
     current_savings          |-> PyNone,
     debt_amount              |-> PyNone]

\* A setter returns the profile as it leaves it, or raises and leaves it as it
\* was.  value.lower() and value.replace() raise AttributeError on a value
\* that is neither a member of the class nor a string.

\* faulty variant: an unknown string silently stores UserType.STUDENT
set_user_type_Defaulting(self, value) ==
    IF value.type = "UserType" THEN Returned([self EXCEPT !.user_type = value])
    ELSE IF value.type # "str" THEN Raised("AttributeError")
    ELSE LET member == EnumCall("UserType", Lower(value.value))
         IN  IF member.status = "raised"
             THEN Returned([self EXCEPT !.user_type = Member("UserType", "student")])
             ELSE Returned([self EXCEPT !.user_type = member.value])

set_user_type(self, value) ==
    IF value.type = "UserType" THEN Returned([self EXCEPT !.user_type = value])
    ELSE IF value.type # "str" THEN Raised("AttributeError")
    ELSE LET member == EnumCall("UserType", Lower(value.value))
         IN  IF member.status = "raised" THEN member
             ELSE Returned([self EXCEPT !.user_type = member.value])

set_age_range(self, value) ==
    IF value.type = "AgeRange" THEN Returned([self EXCEPT !.age_range = value])
    ELSE IF value.type # "str" THEN Raised("AttributeError")
    ELSE LET normalized == Replace(value.value, "_", "-")
             member == EnumCall("AgeRange", normalized)
         IN  IF member.status = "raised" THEN member
             ELSE Returned([self EXCEPT !.age_range = member.value])

set_income_level(self, value) ==
    IF value.type = "IncomeLevel" THEN Returned([self EXCEPT !.income_level = value])
    ELSE IF value.type # "str" THEN Raised("AttributeError")
    ELSE LET normalized == Replace(value.value, "_", "-")
             member == EnumCall("IncomeLevel", normalized)
         IN  IF member.status = "raised" THEN member
             ELSE Returned([self EXCEPT !.income_level = member.value])

set_risk_tolerance(self, value) ==
    IF value.type = "RiskTolerance" THEN Returned([self EXCEPT !.risk_tolerance = value])
    ELSE IF value.type # "str" THEN Raised("AttributeError")
    ELSE LET member == EnumCall("RiskTolerance", Lower(value.value))
         IN  IF member.status = "raised" THEN member
             ELSE Returned([self EXCEPT !.risk_tolerance = member.value])

set_communication_preference(self, value) ==
    IF value.type = "CommunicationStyle"
    THEN Returned([self EXCEPT !.communication_preference = value])
    ELSE IF value.type # "str" THEN Raised("AttributeError")
    ELSE LET member == EnumCall("CommunicationStyle", Lower(value.value))
         IN  IF member.status = "raised" THEN member
             ELSE Returned([self EXCEPT !.communication_preference = member.value])

\* FinancialGoal(goal_type, target_amount, timeline, priority)
FinancialGoal(goal_type, target_amount, timeline, priority) ==
    [goal_type |-> goal_type, target_amount |-> target_amount,
     timeline |-> timeline, priority |-> priority]

\* faulty variant: the new goal is put first
add_financial_goal_Prepending(self, goal_type, target_amount, timeline, priority) ==
    [self EXCEPT !.financial_goals =
        <<FinancialGoal(goal_type, target_amount, timeline, priority)>> \o @]

\* add_financial_goal: the new goal is appended
add_financial_goal(self, goal_type, target_amount, timeline, priority) ==
    [self EXCEPT !.financial_goals =
        Append(@, FinancialGoal(goal_type, target_amount, timeline, priority))]

(***************************************************************************)
(* HuggingFaceFinanceService: the response templates.  Of each template's  *)
(* content the model keeps the opening line and the line that holds an     *)
(* interpolated field, with the white space the template has around them;  *)
(* the emoji are left out.                                                 *)
(***************************************************************************)
\* Python truth value of an object held by a profile
Truthy(x) ==
    /\ x # PyNone
    /\ ~(x.type = "str" /\ x.value = "")
    /\ ~(x.type = "int" /\ x.value = 0)

\* obj.attribute exists
HasAttr(obj, attribute) == attribute \in DOMAIN obj

RECURSIVE LStrip(_)
LStrip(s) == IF Len(s) > 0 /\ Char(s, 1) = " " THEN LStrip(SubSeq(s, 2, Len(s))) ELSE s

RECURSIVE RStrip(_)
RStrip(s) ==
    IF Len(s) > 0 /\ Char(s, Len(s)) = " " THEN RStrip(SubSeq(s, 1, Len(s) - 1)) ELSE s

\* str.strip()
Strip(s) == RStrip(LStrip(s))

\* dict.get(key, default) on a dict held as a record
DictGet(dict, key, default) == IF key \in DOMAIN dict THEN dict[key] ELSE default

PersonalizedResponse(content, tone, complexity_level, recommendations, additional_resources, follow_up_questions) ==
    [content              |-> content,
     tone                 |-> tone,
     complexity_level     |-> complexity_level,
     recommendations      |-> recommendations,
     additional_resources |-> additional_resources,
     follow_up_questions  |-> follow_up_questions]

\* base_responses of _generate_student_response; name is user_profile.name or 'there'
student_base_responses(name) ==
    [savings |->
        [content |-> "   Hey " \o name \o "! Great question about saving money as a student!   ",
         recommendations |->
            <<"Open a high-yield savings account with no minimum balance",
              "Set up automatic transfers of $25-50 per month",
              "Track spending for one month to identify money leaks",
              "Apply for student discounts on subscriptions and services">>,
         resources |->
            <<"Student Budget Template",
              "Campus Financial Counseling Services",
              "Free Financial Literacy Apps">>,
         follow_ups |->
            <<"What's your biggest monthly expense besides tuition?",
              "Do you have any income from part-time work?",
              "Would you like help setting up your first budget?">>],
     investment |->
        [content |-> "   Awesome that you're thinking about investing as a student!   ",
         recommendations |->
            <<"Open a Roth IRA - perfect for students with low income",
              "Start with a target-date fund for simplicity",
              "Use micro-investing apps to begin with small amounts",
              "Take a free online investing course">>,
         resources |->
            <<"Student Investment Guide",
              "Roth IRA Comparison Chart",
              "Free Investment Courses">>,
         follow_ups |->
            <<"Do you have any earned income this year?",
              "What's your investment timeline?",
              "Are you interested in learning about index funds?">>],
     budgeting |->
        [content |-> "   Perfect time to learn budgeting as a student!   ",
         recommendations |->
            <<"Use a budgeting app designed for students",
              "Track every expense for one week to see patterns",
              "Set up a separate savings account",
              "Look for student discounts on everything you buy">>]]

\* faulty variant: an unknown category selects the "budgeting" bucket
_generate_student_response_DefaultBudgeting(q, user_profile) ==
    IF ~HasAttr(user_profile, "name") \/ ~HasAttr(q, "category")
    THEN Raised("AttributeError")
    ELSE LET name == IF Truthy(user_profile.name) THEN user_profile.name.value ELSE "there"
             base_responses == student_base_responses(name)
             response_data == DictGet(base_responses, q.category, base_responses["budgeting"])
         IN  Returned(PersonalizedResponse(
                 Strip(response_data["content"]),
                 "friendly and educational",
                 "simple",
                 DictGet(response_data, "recommendations", <<>>),
                 DictGet(response_data, "resources", <<>>),
                 DictGet(response_data, "follow_ups", <<>>)))

_generate_student_response(q, user_profile) ==
    IF ~HasAttr(user_profile, "name") \/ ~HasAttr(q, "category")
    THEN Raised("AttributeError")
    ELSE LET name == IF Truthy(user_profile.name) THEN user_profile.name.value ELSE "there"
             base_responses == student_base_responses(name)
             response_data == DictGet(base_responses, q.category, base_responses["savings"])
         IN  Returned(PersonalizedResponse(
                 Strip(response_data["content"]),
                 "friendly and educational",
                 "simple",
                 DictGet(response_data, "recommendations", <<>>),
                 DictGet(response_data, "resources", <<>>),
                 DictGet(response_data, "follow_ups", <<>>)))

\* base_responses of _generate_professional_response; risk is
\* user_profile.risk_tolerance.value, or 'moderate' when it is unset
professional_base_responses(risk) ==
    [investment |->
        [content |-> "   Excellent question about investment strategy! ... Risk Tolerance: Your "
                        \o risk \o " profile suggests balanced growth   ",
         recommendations |->
            <<"Maximize 401(k) employer match immediately",
              "Open and fund Roth IRA if income eligible",
              "Consider low-cost index funds (VTSAX, FXNAX)",
              "Implement tax-loss harvesting strategy",
              "Review and rebalance portfolio quarterly">>,
         resources |->
            <<"Advanced Portfolio Management Tools",
              "Tax-Loss Harvesting Guide",
              "Professional Financial Planning Resources">>],
     savings |->
        [content |-> "   Strategic savings approach for professionals:   "]]

\* faulty variant: the professional response carries the general tone
_generate_professional_response_Helpful(q, user_profile) ==
    IF ~HasAttr(user_profile, "risk_tolerance") \/ ~HasAttr(q, "category")
    THEN Raised("AttributeError")
    ELSE IF Truthy(user_profile.risk_tolerance)
            /\ user_profile.risk_tolerance.type \notin DOMAIN EnumValues
    THEN Raised("AttributeError")
    ELSE LET risk == IF Truthy(user_profile.risk_tolerance)
                     THEN user_profile.risk_tolerance.value ELSE "moderate"
             base_responses == professional_base_responses(risk)
             response_data == DictGet(base_responses, q.category, base_responses["investment"])
         IN  Returned(PersonalizedResponse(
                 Strip(response_data["content"]),
                 "helpful",
                 "medium",
                 DictGet(response_data, "recommendations", <<>>),
                 DictGet(response_data, "resources", <<>>),
                 DictGet(response_data, "follow_ups",
                         <<"What's your current asset allocation?",
                           "Are you maximizing all tax-advantaged accounts?",
                           "Would you like specific fund recommendations?">>)))

\* Only the members of the enum classes have a value attribute.
_generate_professional_response(q, user_profile) ==
    IF ~HasAttr(user_profile, "risk_tolerance") \/ ~HasAttr(q, "category")
    THEN Raised("AttributeError")
    ELSE IF Truthy(user_profile.risk_tolerance)
            /\ user_profile.risk_tolerance.type \notin DOMAIN EnumValues
    THEN Raised("AttributeError")
    ELSE LET risk == IF Truthy(user_profile.risk_tolerance)
                     THEN user_profile.risk_tolerance.value ELSE "moderate"
             base_responses == professional_base_responses(risk)
             response_data == DictGet(base_responses, q.category, base_responses["investment"])
         IN  Returned(PersonalizedResponse(
                 Strip(response_data["content"]),
                 "professional and detailed",
                 "advanced",
                 DictGet(response_data, "recommendations", <<>>),
                 DictGet(response_data, "resources", <<>>),
                 DictGet(response_data, "follow_ups",
                         <<"What's your current asset allocation?",
                           "Are you maximizing all tax-advantaged accounts?",
                           "Would you like specific fund recommendations?">>)))

_generate_general_response(q, user_profile) ==
    Returned(PersonalizedResponse(
        "Thanks for your question! I'd be happy to provide personalized advice once you complete your profile setup. This helps me tailor recommendations to your specific situation and goals.",
        "helpful",
        "medium",
        <<"Complete your user profile for personalized advice">>,
        <<"Financial Planning Basics">>,
        <<"Would you like to complete your profile setup?">>))

_generate_fallback_response(q) ==
    PersonalizedResponse(
        "I'm here to help with your financial questions! Could you please rephrase your question or be more specific about what you'd like to know?",
        "helpful",
        "simple",
        <<"Try asking about savings, investments, budgeting, or debt management">>,
        <<"Financial FAQ">>,
        <<"What specific financial topic would you like help with?">>)

\* faulty variant: every persona with a user_type gets the student response
generate_try_StudentOnly(q, user_profile) ==
    IF ~HasAttr(user_profile, "user_type") THEN Raised("AttributeError")
    ELSE IF user_profile.user_type # PyNone
         THEN _generate_student_response(q, user_profile)
    ELSE _generate_general_response(q, user_profile)

\* the try block of generate_personalized_response
generate_try(q, user_profile) ==
    IF ~HasAttr(user_profile, "user_type") THEN Raised("AttributeError")
    ELSE IF user_profile.user_type = Member("UserType", "student")
         THEN _generate_student_response(q, user_profile)
    ELSE IF user_profile.user_type = Member("UserType", "professional")
         THEN _generate_professional_response(q, user_profile)
    ELSE _generate_general_response(q, user_profile)

\* faulty variant: no except clause, the error propagates
generate_personalized_response_NoExcept(q, user_profile) ==
    generate_try(q, user_profile)

generate_personalized_response(q, user_profile) ==
    LET body == generate_try(q, user_profile)
    IN  IF body.status = "raised" THEN Returned(_generate_fallback_response(q)) ELSE body

(***************************************************************************)
(* HuggingFaceFinanceService: budget summary and spending insights.        *)
(* A quotient is held as a fraction.  A number formatted with {:.1f} is    *)
(* held as the number of tenths it shows, one formatted with {:.0f} as the *)
(* integer it shows; the rounding is to nearest, ties to even, which is    *)
(* what the formatting does when the quotient at a tie is an exact float,  *)
(* as it is for the amounts used here.  A summary is held as the record of *)
(* the values its text shows.                                              *)
(***************************************************************************)
LowerToUpper ==
    [c \in {Char(LowerChars, i) : i \in 1..26} |->
        Char(UpperChars, CHOOSE i \in 1..26 : Char(LowerChars, i) = c)]

Cased(c) == c \in DOMAIN LowerToUpper \/ c \in DOMAIN UpperToLower

RECURSIVE TitleFrom(_, _)
TitleFrom(s, i) ==
    IF i > Len(s) THEN ""
    ELSE LET c == Char(s, i)
             word_start == i = 1 \/ ~Cased(Char(s, i - 1))
         IN  (IF word_start /\ c \in DOMAIN LowerToUpper THEN LowerToUpper[c]
              ELSE IF ~word_start THEN LowerChar(c)
              ELSE c) \o TitleFrom(s, i + 1)

\* str.title()
Title(s) == TitleFrom(s, 1)

\* x or 0, for an amount that is None or a number
OrZero(x) == IF Truthy(x) THEN x.value ELSE 0

\* a / b
Divide(a, b) ==
    IF b = 0 THEN Raised("ZeroDivisionError") ELSE Returned([num |-> a, den |-> b])

\* the integer nearest to n / d, ties to even (n >= 0, d > 0)
RoundHalfEven(n, d) ==
    LET q == n \div d
        r == n % d
    IN  IF 2 * r < d THEN q
        ELSE IF 2 * r > d THEN q + 1
        ELSE IF q % 2 = 0 THEN q ELSE q + 1

\* what "{:.1f}" shows of a fraction, in tenths
Format1f(x) == RoundHalfEven(10 * x.num, x.den)

\* what "{:.0f}" shows of a fraction
Format0f(x) == RoundHalfEven(x.num, x.den)

\* faulty variant: the division is not guarded
savings_months_Unguarded(current_savings, monthly_expenses) ==
    Divide(current_savings, monthly_expenses)

\* current_savings / monthly_expenses if monthly_expenses > 0 else 0
savings_months(current_savings, monthly_expenses) ==
    IF monthly_expenses > 0 THEN Divide(current_savings, monthly_expenses)
    ELSE Returned([num |-> 0, den |-> 1])

\* max(monthly_expenses * 0.1, 25), as a fraction
monthly_saving_potential(monthly_expenses) ==
    IF monthly_expenses > 250 THEN [num |-> monthly_expenses, den |-> 10]
    ELSE [num |-> 25, den |-> 1]

\* the lines the loop over financial_goals adds to the student summary
RECURSIVE GoalLines(_, _, _)
GoalLines(financial_goals, monthly_expenses, i) ==
    IF i > Len(financial_goals) THEN <<>>
    ELSE LET goal == financial_goals[i]
             potential == monthly_saving_potential(monthly_expenses)
             months_to_goal == [num |-> goal.target_amount * potential.den,
                                den |-> potential.num]
         IN  (IF monthly_expenses > 0
              THEN <<[goal_type      |-> Title(goal.goal_type),
                      target_amount  |-> goal.target_amount,
                      months_to_goal |-> Format0f(months_to_goal)]>>
              ELSE <<>>) \o GoalLines(financial_goals, monthly_expenses, i + 1)

_generate_student_budget_summary(financial_data, user_profile) ==
    LET monthly_expenses == OrZero(user_profile.monthly_expenses)
        current_savings == OrZero(user_profile.current_savings)
        months == savings_months(current_savings, monthly_expenses)
    IN  IF months.status = "raised" THEN months
        ELSE Returned(
            [title            |-> "Your Student Budget Overview",
             name             |-> IF Truthy(user_profile.name)
                                  THEN user_profile.name.value ELSE "there",
             monthly_expenses |-> monthly_expenses,
             current_savings  |-> current_savings,
             emergency        |-> IF months.value.num > 0
                                  THEN [line   |-> "Emergency Coverage",
                                        months |-> Format1f(months.value)]
                                  ELSE [line |-> "Emergency Fund: Not yet established"],
             goal_tracking    |-> GoalLines(user_profile.financial_goals, monthly_expenses, 1)])

_generate_professional_budget_summary(financial_data, user_profile) ==
    LET monthly_expenses == OrZero(user_profile.monthly_expenses)
        current_savings == OrZero(user_profile.current_savings)
        debt_amount == OrZero(user_profile.debt_amount)
        emergency_months == savings_months(current_savings, monthly_expenses)
    IN  IF emergency_months.status = "raised" THEN emergency_months
        ELSE Returned(
            [title            |-> "Professional Financial Dashboard",
             monthly_expenses |-> monthly_expenses,
             current_savings  |-> current_savings,
             debt_amount      |-> debt_amount,
             emergency        |-> [line   |-> "Emergency Fund",
                                   months |-> Format1f(emergency_months.value)]])

_generate_general_budget_summary(financial_data) ==
    Returned([title |-> "Budget Summary"])

\* the try block of generate_budget_summary
budget_summary_try(financial_data, user_profile) ==
    IF ~HasAttr(user_profile, "user_type") THEN Raised("AttributeError")
    ELSE IF user_profile.user_type = Member("UserType", "student")
         THEN _generate_student_budget_summary(financial_data, user_profile)
    ELSE IF user_profile.user_type = Member("UserType", "professional")
         THEN _generate_professional_budget_summary(financial_data, user_profile)
    ELSE _generate_general_budget_summary(financial_data)

generate_budget_summary(financial_data, user_profile) ==
    LET body == budget_summary_try(financial_data, user_profile)
    IN  IF body.status = "raised"
        THEN Returned([title |-> "Unable to generate budget summary at this time. Please try again later."])
        ELSE body

\* the try block of get_spending_insights
spending_insights_try(spending_data, user_profile) ==
    IF ~HasAttr(user_profile, "user_type") THEN Raised("AttributeError")
    ELSE IF user_profile.user_type = Member("UserType", "student")
    THEN Returned(
            <<"Consider meal prepping to reduce food costs by 30-40%",
              "Use library resources and digital textbooks to save on books",
              "Look into student transit passes for transportation savings",
              "Take advantage of free campus activities for entertainment",
              "Bundle student discounts for streaming services",
              "Limit coffee shop visits - make coffee at home/dorm">>)
    ELSE IF user_profile.user_type = Member("UserType", "professional")
    THEN Returned(
            <<"Housing should be under 28% of gross income for optimal health",
              "Consider car-sharing or public transit to reduce costs",
              "Review and cancel unused subscription services monthly",
              "Meal planning can save $200-400/month vs eating out",
              "Maximize tax-deductible professional development expenses",
              "Energy-efficient upgrades can reduce utility costs">>)
    ELSE Returned(
            <<"Track your spending for one month to identify patterns",
              "Set up automatic savings transfers on payday",
              "Use the 50/30/20 budgeting rule as a starting point",
              "Pay off high-interest debt before investing">>)

\* faulty variant: no except clause, the error propagates
get_spending_insights_NoExcept(spending_data, user_profile) ==
    LET body == spending_insights_try(spending_data, user_profile)
    IN  IF body.status = "raised" THEN body ELSE Returned(Take(body.value, 6))

get_spending_insights(spending_data, user_profile) ==
    LET body == spending_insights_try(spending_data, user_profile)
        insights_list == IF body.status = "raised"
                         THEN <<"Complete your profile for personalized spending insights!">>
                         ELSE body.value
    IN  Returned(Take(insights_list, 6))

(***************************************************************************)
(* ProfileService (src/services/profile_service.py).  The data directory   *)
(* is a set of files, each a name and a content; a content is empty, a     *)
(* JSON document or text that is not JSON.  The directory may refuse to be *)
(* written to or read from.  Each method returns its outcome and the       *)
(* directory as it leaves it.                                              *)
(***************************************************************************)
\* str(x) of an identifier inside an f-string
FormatId(x) == IF x = PyNone THEN "None" ELSE x.value

\* f"profile_{user_id}.json"
ProfileFileName(user_id) == "profile_" \o FormatId(user_id) \o ".json"

EmptyFile == [kind |-> "empty"]

GarbageFile == [kind |-> "text"]

JsonFile(data) == [kind |-> "json", data |-> data]

FileExists(d, name) == \E f \in d.files : f.name = name

FileContent(d, name) == (CHOOSE f \in d.files : f.name = name).content

\* open(name, 'w') followed by the writes made before the file is closed
WriteFile(d, name, content) ==
    [d EXCEPT !.files = {f \in @ : f.name # name} \cup {[name |-> name, content |-> content]}]

\* The try block of save_profile(p), p a UserProfile or None.  p.user_id
\* raises on None; open() raises in a directory that refuses writes, and
\* otherwise creates the file or truncates it; p.to_dict() then raises, as the
\* class UserProfile defines no to_dict, and the file is closed empty.
save_try(d, p) ==
    IF ~HasAttr(p, "user_id")
    THEN [outcome |-> Raised("AttributeError"), disk |-> d]
    ELSE LET file_path == ProfileFileName(p.user_id)
         IN  IF ~d.writable
             THEN [outcome |-> Raised("PermissionError"), disk |-> d]
             ELSE [outcome |-> Raised("AttributeError"),
                   disk    |-> WriteFile(d, file_path, EmptyFile)]

\* save_profile: False on any exception
save_profile(d, p) ==
    LET body == save_try(d, p)
    IN  IF body.outcome.status = "raised"
        THEN [body EXCEPT !.outcome = Returned(FALSE)]
        ELSE body

\* The try block of load_profile.  A file that is there is opened and parsed;
\* json.load raises on an empty file and on text that is not JSON;
\* UserProfile.from_dict(data) then raises, as the class defines no from_dict.
load_try(d, user_id) ==
    LET file_path == ProfileFileName(user_id)
    IN  IF FileExists(d, file_path)
        THEN IF ~d.readable THEN Raised("PermissionError")
             ELSE IF FileContent(d, file_path).kind # "json" THEN Raised("JSONDecodeError")
             ELSE Raised("AttributeError")
        ELSE Returned(PyNone)

\* faulty variant: the except clause dropped
load_profile_NoExcept(d, user_id) == load_try(d, user_id)

\* load_profile: None on any exception
load_profile(d, user_id) ==
    LET body == load_try(d, user_id)
    IN  IF body.status = "raised" THEN Returned(PyNone) ELSE body

(***************************************************************************)
(* The chat page (src/pages/chat.py).  st.session_state is the set of its  *)
(* keys and the chat history; the profile it holds is the variable         *)
(* profile.  A message is its role and its content; of the welcome message *)
(* the opening line is kept, without the emoji.  The timestamp of a        *)
(* message is left out.                                                    *)
(***************************************************************************)
required_fields ==
    {"name", "user_type", "age_range", "income_level", "risk_tolerance",
     "communication_preference"}

\* (filled / len(required_fields)) * 100, in whole percents
profile_completion_percentage(self) ==
    (Cardinality({field \in required_fields : Truthy(self[field])}) * 100)
        \div Cardinality(required_fields)

is_profile_complete(self) == profile_completion_percentage(self) = 100

get_welcome_message(user_profile) ==
    LET name == IF Truthy(user_profile.name) THEN user_profile.name.value ELSE "there"
    IN  IF user_profile.user_type.value = "student"
        THEN "Hi " \o name \o "! Welcome to your personal finance assistant!"
        ELSE "Hello " \o name \o "! Welcome to your personal finance assistant!"

Message(role, content) == [role |-> role, content |-> content]

\* add_message_to_chat(role, content)
add_message_to_chat(ss, role, content) ==
    [ss EXCEPT !.chat_history = Append(@, Message(role, content))]

\* the user_profile argument as the analysis operators take it
KindOf(user_profile) ==
    IF user_profile.user_type = PyNone THEN "None" ELSE user_profile.user_type.value

\* hf_service.analyze_financial_query(text, user_profile) followed by
\* hf_service.generate_personalized_response(...).content, on the service the
\* page creates: HuggingFaceFinanceService() is in lightweight mode, without
\* an adapter
Answer(text, user_profile) ==
    generate_personalized_response(
        analyze_financial_query(text, KindOf(user_profile), "None", NotCalled).value,
        user_profile).value.content

\* faulty variant: the reply is added before the user's message
handle_chat_input_ReplyFirst(ss, user_input, user_profile) ==
    add_message_to_chat(
        add_message_to_chat(ss, "assistant", Answer(user_input, user_profile)),
        "user", user_input)

\* handle_chat_input with an input: the user's message, then the reply
handle_chat_input(ss, user_input, user_profile) ==
    add_message_to_chat(
        add_message_to_chat(ss, "user", user_input),
        "assistant", Answer(user_input, user_profile))

\* a suggestion button of show_chat_sidebar: the same two messages
suggestion_clicked(ss, suggestion, user_profile) ==
    add_message_to_chat(
        add_message_to_chat(ss, "user", suggestion),
        "assistant", Answer(suggestion, user_profile))

NoTrigger == [kind |-> "none"]

\* One run of show_chat_interface up to its end or to st.rerun().  At most
\* one widget is triggered in a run.  The run gives the session state it
\* leaves, the texts it analysed and whether it ended in st.rerun().
run_chat_interface(ss, user_profile, trigger) ==
    LET connected == [ss EXCEPT !.keys = @ \cup {"hf_service"}]
    IN  IF "user_profile" \notin connected.keys \/ ~is_profile_complete(user_profile)
        THEN [session_state |-> connected, analysed |-> <<>>, rerun |-> FALSE]
        ELSE LET started ==
                     IF "chat_history" \notin connected.keys
                     THEN add_message_to_chat(
                              [keys |-> connected.keys \cup {"chat_history"},
                               chat_history |-> <<>>],
                              "assistant", get_welcome_message(user_profile))
                     ELSE connected
             IN  IF trigger.kind = "quick_action"
                 THEN [session_state |-> add_message_to_chat(started, "assistant", trigger.text),
                       analysed |-> <<>>, rerun |-> TRUE]
                 ELSE IF trigger.kind = "suggestion"
                 THEN [session_state |-> suggestion_clicked(started, trigger.text, user_profile),
                       analysed |-> <<trigger.text>>, rerun |-> TRUE]
                 ELSE IF trigger.kind = "clear_chat"
                 THEN [session_state |-> [started EXCEPT !.chat_history = <<>>],
                       analysed |-> <<>>, rerun |-> TRUE]
                 ELSE IF trigger.kind = "chat_input"
                 THEN [session_state |-> handle_chat_input(started, trigger.text, user_profile),
                       analysed |-> <<trigger.text>>, rerun |-> TRUE]
                 ELSE [session_state |-> started, analysed |-> <<>>, rerun |-> FALSE]

\* show_chat_interface: the run the trigger starts and, after st.rerun(), the
\* run without a trigger that follows it
show_chat_interface(ss, user_profile, trigger) ==
    LET first == run_chat_interface(ss, user_profile, trigger)
    IN  IF first.rerun
        THEN [run_chat_interface(first.session_state, user_profile, NoTrigger)
                  EXCEPT !.analysed = first.analysed]
        ELSE first

(***************************************************************************)
(* Inputs                                                                  *)
(***************************************************************************)
Phrases ==
    {"Save", "monthly", "budget money", "IRS", "tax", "want help", "debt",
     "stock bond portfolio", "emergency fund", "googood", "$5 loan"}

RECURSIVE JoinPhrases(_, _)
JoinPhrases(ps, i) ==
    IF i > Len(ps) THEN ""
    ELSE IF i = Len(ps) THEN ps[i]
    ELSE ps[i] \o " " \o JoinPhrases(ps, i + 1)

Texts == {JoinPhrases(ps, 1) : ps \in UNION {[1..n -> Phrases] : n \in 0..MaxPhrases}}

(***************************************************************************)
(* The state machine                                                       *)
(***************************************************************************)
\* os.makedirs(data_dir, exist_ok=True): the directory exists and holds no file
EmptyDisk == [writable |-> TRUE, readable |-> TRUE, files |-> {}]

\* st.session_state before the chat page has run: no key is set
NewSessionState == [keys |-> {}, chat_history |-> <<>>]

\* No goal has been added, the tables are as __init__ builds them, no call is
\* running, nothing is stored and the chat page has not been opened.
AppIdle ==
    /\ goal_calls = <<>>
    /\ service_tables = ServiceTables
    /\ pc = "idle"
    /\ disk = EmptyDisk
    /\ persistence_call = NoCall
    /\ session_state = NewSessionState
    /\ requests = <<>>

\* __init__: lightweight_mode = True, then _initialize_models()
Init ==
    /\ lightweight_mode = TRUE
    /\ sentiment_analyzer = "None"
    /\ query \in Texts
    /\ adapter_reply = NotCalled
    /\ result = NoCall
    /\ profile = UserProfile
    /\ setter_call = NoCall
    /\ response = NoCall
    /\ summary = NoCall
    /\ insights = NoCall
    /\ calls = <<>>
    /\ AppIdle

\* A deployment with the models enabled clears the flag __init__ sets.
SetLightweightMode ==
    /\ result = NoCall
    /\ lightweight_mode = TRUE
    /\ lightweight_mode' = FALSE
    /\ UNCHANGED <<sentiment_analyzer, query, adapter_reply, result>>
    /\ UNCHANGED profile_vars
    /\ UNCHANGED app_vars

\* _initialize_models.  Whether the transformers import succeeded
\* (TRANSFORMERS_AVAILABLE) and whether pipeline(...) loads or raises are the
\* environment's.
InitializeModels ==
    /\ result = NoCall
    /\ \E TRANSFORMERS_AVAILABLE \in BOOLEAN, loaded \in BOOLEAN :
          sentiment_analyzer' =
              IF lightweight_mode \/ ~TRANSFORMERS_AVAILABLE THEN "None"
              ELSE IF loaded THEN "pipeline" ELSE "None"
    /\ UNCHANGED <<lightweight_mode, query, adapter_reply, result>>
    /\ UNCHANGED profile_vars
    /\ UNCHANGED app_vars

UserTypes == {"None", "student", "professional"}

\* One call of analyze_financial_query(query, user_profile)
AnalyzeFinancialQuery ==
    /\ result = NoCall
    /\ \E user_profile \in UserTypes,
          reply \in (IF sentiment_analyzer = "None" THEN {NotCalled} ELSE AdapterReplies) :
          /\ adapter_reply' = reply
          /\ result' = analyze_financial_query(query, user_profile, sentiment_analyzer, reply)
    /\ UNCHANGED <<lightweight_mode, sentiment_analyzer, query>>
    /\ UNCHANGED profile_vars
    /\ UNCHANGED app_vars

Next == SetLightweightMode \/ InitializeModels \/ AnalyzeFinancialQuery

Spec == Init /\ [][Next]_vars

(***************************************************************************)
(* Profile setup: the enum setters called on a new UserProfile, in any     *)
(* order, with members of the enum classes and with raw strings            *)
(***************************************************************************)
UserTypeInputs ==
    {PyStr(raw) : raw \in {"student", "STUDENT", "Professional", "stu_dent", "teacher", ""}}
        \cup {Member("UserType", "professional"), PyNone}

AgeRangeInputs ==
    {PyStr(raw) : raw \in {"18-25", "26_35", "51+", "AGE_18_25", "18 25"}}
        \cup {Member("AgeRange", "36-50")}

IncomeLevelInputs ==
    {PyStr(raw) : raw \in {"0-15000", "15001_30000", "100000+", "100K+"}}

RiskToleranceInputs ==
    {PyStr(raw) : raw \in {"conservative", "Moderate", "AGGRESSIVE", "moder_ate", "high"}}

CommunicationStyleInputs ==
    {PyStr(raw) : raw \in {"simple", "Detailed", "de-tailed", "verbose"}}
        \cup {Member("CommunicationStyle", "simple")}

\* the profile after the call and the record of the call
CallSetter(setter, value, outcome) ==
    /\ profile' = IF outcome.status = "returned" THEN outcome.value ELSE profile
    /\ setter_call' = [setter  |-> setter,
                       value   |-> value,
                       before  |-> profile,
                       outcome |-> IF outcome.status = "returned"
                                   THEN Returned(PyNone) ELSE outcome]
    /\ UNCHANGED <<response, summary, insights, calls>>
    /\ UNCHANGED analysis_vars
    /\ UNCHANGED app_vars

SetUserType ==
    \E value \in UserTypeInputs :
        CallSetter("set_user_type", value, set_user_type(profile, value))

SetAgeRange ==
    \E value \in AgeRangeInputs :
        CallSetter("set_age_range", value, set_age_range(profile, value))

SetIncomeLevel ==
    \E value \in IncomeLevelInputs :
        CallSetter("set_income_level", value, set_income_level(profile, value))

SetRiskTolerance ==
    \E value \in RiskToleranceInputs :
        CallSetter("set_risk_tolerance", value, set_risk_tolerance(profile, value))

SetCommunicationPreference ==
    \E value \in CommunicationStyleInputs :
        CallSetter("set_communication_preference", value,
                   set_communication_preference(profile, value))

ProfileInit ==
    /\ lightweight_mode = TRUE
    /\ sentiment_analyzer = "None"
    /\ query = ""
    /\ adapter_reply = NotCalled
    /\ result = NoCall
    /\ profile = UserProfile
    /\ setter_call = NoCall
    /\ response = NoCall
    /\ summary = NoCall
    /\ insights = NoCall
    /\ calls = <<>>
    /\ AppIdle

ProfileNext ==
    \/ SetUserType
    \/ SetAgeRange
    \/ SetIncomeLevel
    \/ SetRiskTolerance
    \/ SetCommunicationPreference

ProfileSpec == ProfileInit /\ [][ProfileNext]_vars

(***************************************************************************)
(* Advice: a query is analysed and answered for the session's profile, as  *)
(* handle_chat_input and the test scripts do; generate_personalized_response *)
(* is also called with queries it did not get from the analysis and with   *)
(* None in place of either argument.                                       *)
(***************************************************************************)
AdviceTexts ==
    {"How should I save money?",
     "What investment options are good for beginners?",
     "How do I create a budget?",
     "pay off my loan",
     "tax refund",
     "hello"}

\* profiles as the setters and the assignments of name leave them
Personas ==
    {[UserProfile EXCEPT !.user_type = user_type, !.name = name, !.risk_tolerance = risk] :
        user_type \in {PyNone} \cup {Member("UserType", v) : v \in EnumValues["UserType"]},
        name \in {PyNone, PyStr(""), PyStr("Alice")},
        risk \in {PyNone, Member("RiskTolerance", "conservative")}}

\* FinancialQuery objects that no analysis produced
GarbageQueries ==
    {[original_query |-> "?", intent |-> intent, entities |-> <<>>, keywords |-> <<>>,
      sentiment |-> "neutral", confidence |-> 60, category |-> category] :
        intent \in {"financial_planning", "%$#"},
        category \in {"financial", "debt", "SAVINGS", ""}}

AdviceInit ==
    /\ lightweight_mode = TRUE
    /\ sentiment_analyzer = "None"
    /\ query \in AdviceTexts
    /\ adapter_reply = NotCalled
    /\ result = NoCall
    /\ profile \in Personas
    /\ setter_call = NoCall
    /\ response = NoCall
    /\ summary = NoCall
    /\ insights = NoCall
    /\ calls = <<>>
    /\ AppIdle

\* One call of generate_personalized_response(q, user_profile)
GeneratePersonalizedResponse ==
    /\ response = NoCall
    /\ \E q \in (IF result.status = "returned" THEN {result.value} ELSE {})
                    \cup GarbageQueries \cup {PyNone},
          user_profile \in {profile, PyNone} :
          response' = [query        |-> q,
                       user_profile |-> user_profile,
                       outcome      |-> generate_personalized_response(q, user_profile)]
    /\ UNCHANGED <<profile, setter_call, summary, insights, calls>>
    /\ UNCHANGED analysis_vars
    /\ UNCHANGED app_vars

AdviceNext == AnalyzeFinancialQuery \/ GeneratePersonalizedResponse

AdviceSpec == AdviceInit /\ [][AdviceNext]_vars

(***************************************************************************)
(* Budget views: the amounts and goals of a profile are filled in, then    *)
(* the budget summary and the spending insights are asked for, either with *)
(* the profile or with None in its place.                                  *)
(***************************************************************************)
BudgetPersonas ==
    {[UserProfile EXCEPT !.user_type = user_type, !.name = name] :
        user_type \in {PyNone} \cup {Member("UserType", v) : v \in EnumValues["UserType"]},
        name \in {PyNone, PyStr("Alice")}}

ExpenseAmounts == {0, 200, 800, 4500}

SavingsAmounts == {0, 1200, 25000}

DebtAmounts == {15000}

GoalTypes == {"emergency_fund", "house"}

TargetAmounts == {3000, 80000}

BudgetInit ==
    /\ lightweight_mode = TRUE
    /\ sentiment_analyzer = "None"
    /\ query = ""
    /\ adapter_reply = NotCalled
    /\ result = NoCall
    /\ profile \in BudgetPersonas
    /\ setter_call = NoCall
    /\ response = NoCall
    /\ summary = NoCall
    /\ insights = NoCall
    /\ calls = <<>>
    /\ AppIdle

\* the views have not been asked for yet
SettingUp == summary = NoCall /\ insights = NoCall

\* user.monthly_expenses = amount
SetMonthlyExpenses ==
    /\ SettingUp
    /\ profile.monthly_expenses = PyNone
    /\ \E amount \in ExpenseAmounts :
          profile' = [profile EXCEPT !.monthly_expenses = PyNum(amount)]
    /\ UNCHANGED <<setter_call, response, summary, insights, calls>>
    /\ UNCHANGED analysis_vars
    /\ UNCHANGED app_vars

\* user.current_savings = amount
SetCurrentSavings ==
    /\ SettingUp
    /\ profile.current_savings = PyNone
    /\ \E amount \in SavingsAmounts :
          profile' = [profile EXCEPT !.current_savings = PyNum(amount)]
    /\ UNCHANGED <<setter_call, response, summary, insights, calls>>
    /\ UNCHANGED analysis_vars
    /\ UNCHANGED app_vars

\* user.debt_amount = amount
SetDebtAmount ==
    /\ SettingUp
    /\ profile.debt_amount = PyNone
    /\ \E amount \in DebtAmounts :
          profile' = [profile EXCEPT !.debt_amount = PyNum(amount)]
    /\ UNCHANGED <<setter_call, response, summary, insights, calls>>
    /\ UNCHANGED analysis_vars
    /\ UNCHANGED app_vars

\* user.add_financial_goal(goal_type, target_amount, timeline, priority)
AddFinancialGoal ==
    /\ SettingUp
    /\ Len(profile.financial_goals) < MaxGoals
    /\ \E goal_type \in GoalTypes, target_amount \in TargetAmounts :
          profile' = add_financial_goal(profile, goal_type, target_amount, "short_term", "high")
    /\ UNCHANGED <<setter_call, response, summary, insights, calls>>
    /\ UNCHANGED analysis_vars
    /\ UNCHANGED app_vars

\* One call of generate_budget_summary({}, user_profile)
GenerateBudgetSummary ==
    /\ summary = NoCall
    /\ \E user_profile \in {profile, PyNone} :
          summary' = [user_profile |-> user_profile,
                      outcome      |-> generate_budget_summary(<<>>, user_profile)]
    /\ UNCHANGED <<profile, setter_call, response, insights, calls>>
    /\ UNCHANGED analysis_vars
    /\ UNCHANGED app_vars

\* One call of get_spending_insights({}, user_profile)
GetSpendingInsights ==
    /\ insights = NoCall
    /\ \E user_profile \in {profile, PyNone} :
          insights' = [user_profile |-> user_profile,
                       outcome      |-> get_spending_insights(<<>>, user_profile)]
    /\ UNCHANGED <<profile, setter_call, response, summary, calls>>
    /\ UNCHANGED analysis_vars
    /\ UNCHANGED app_vars

BudgetNext ==
    \/ SetMonthlyExpenses
    \/ SetCurrentSavings
    \/ SetDebtAmount
    \/ AddFinancialGoal
    \/ GenerateBudgetSummary
    \/ GetSpendingInsights

BudgetSpec == BudgetInit /\ [][BudgetNext]_vars

(***************************************************************************)
(* A session: several analysis calls on one service instance, between      *)
(* which the models may be initialised again                               *)
(***************************************************************************)
SessionTexts == {"Save good money", "bad debt"}

SessionProfiles == {"None", "student"}

SessionReplies ==
    {Raised("RuntimeError"), Returned(<<[label |-> "POSITIVE", score |-> 98]>>)}

SessionInit ==
    /\ lightweight_mode = TRUE
    /\ sentiment_analyzer = "None"
    /\ query = ""
    /\ adapter_reply = NotCalled
    /\ result = NoCall
    /\ profile = UserProfile
    /\ setter_call = NoCall
    /\ response = NoCall
    /\ summary = NoCall
    /\ insights = NoCall
    /\ calls = <<>>
    /\ AppIdle

\* One more call of analyze_financial_query(text, user_profile) on the instance
AnalyzeAgain ==
    /\ Len(calls) < MaxCalls
    /\ \E text \in SessionTexts, user_profile \in SessionProfiles,
          reply \in (IF sentiment_analyzer = "None" THEN {NotCalled} ELSE SessionReplies) :
          calls' = Append(calls,
                          [text         |-> text,
                           user_profile |-> user_profile,
                           analyzer     |-> sentiment_analyzer,
                           reply        |-> reply,
                           result       |-> analyze_financial_query(
                                               text, user_profile, sentiment_analyzer, reply)])
    /\ UNCHANGED <<profile, setter_call, response, summary, insights>>
    /\ UNCHANGED analysis_vars
    /\ UNCHANGED app_vars

SessionNext == SetLightweightMode \/ InitializeModels \/ AnalyzeAgain

SessionSpec == SessionInit /\ [][SessionNext]_vars

(***************************************************************************)
(* Goals: goals are added to a profile from the Add New Goal form of the   *)
(* profile page and by direct calls of add_financial_goal, as the test     *)
(* script makes them; between them the page sets the monthly expenses.     *)
(***************************************************************************)
\* st.text_input("Goal Type"): the text may be left empty
PageGoalTypes == {"", "Buy a Car"}

\* st.number_input("Target Amount", min_value=0)
PageTargetAmounts == {0, 5000}

\* st.selectbox("Priority", ["High", "Medium", "Low"])
PagePriorities == {"High", "Medium", "Low"}

\* the add_financial_goal calls of test_watson_service.py
ScriptGoals ==
    {<<"emergency_fund", 3000, "short_term", "high">>,
     <<"house", 80000, "long_term", "high">>,
     <<"retirement", 500000, "long_term", "medium">>}

\* the call user.add_financial_goal(*args) and its record
CallAddFinancialGoal(args) ==
    /\ profile' = add_financial_goal(profile, args[1], args[2], args[3], args[4])
    /\ goal_calls' = Append(goal_calls,
                            [args |-> args, before |-> profile, after |-> profile'])

\* The Add Goal button: the goal is added if the type is not empty and the
\* amount is positive, otherwise an error is shown and nothing is added.
AddGoalOnPage ==
    /\ Len(goal_calls) < MaxGoals
    /\ \E goal_type \in PageGoalTypes, target_amount \in PageTargetAmounts,
          priority \in PagePriorities :
          IF goal_type # "" /\ target_amount > 0
          THEN CallAddFinancialGoal(<<goal_type, target_amount, "5 years", priority>>)
          ELSE UNCHANGED <<profile, goal_calls>>
    /\ UNCHANGED <<setter_call, response, summary, insights, calls>>
    /\ UNCHANGED analysis_vars
    /\ UNCHANGED <<service_tables, pc, disk, persistence_call, session_state, requests>>

\* A direct call, as in the test script
AddGoalInScript ==
    /\ Len(goal_calls) < MaxGoals
    /\ \E args \in ScriptGoals : CallAddFinancialGoal(args)
    /\ UNCHANGED <<setter_call, response, summary, insights, calls>>
    /\ UNCHANGED analysis_vars
    /\ UNCHANGED <<service_tables, pc, disk, persistence_call, session_state, requests>>

GoalsInit ==
    /\ lightweight_mode = TRUE
    /\ sentiment_analyzer = "None"
    /\ query = ""
    /\ adapter_reply = NotCalled
    /\ result = NoCall
    /\ profile \in BudgetPersonas
    /\ setter_call = NoCall
    /\ response = NoCall
    /\ summary = NoCall
    /\ insights = NoCall
    /\ calls = <<>>
    /\ AppIdle

GoalsNext == AddGoalOnPage \/ AddGoalInScript \/ SetMonthlyExpenses

GoalsSpec == GoalsInit /\ [][GoalsNext]_vars

(***************************************************************************)
(* Persistence: profiles are saved to and loaded from a data directory     *)
(* that may already hold files and may refuse access.                      *)
(***************************************************************************)
UserIds == {PyNone, PyStr("u1"), PyStr("u2")}

\* profiles as the profile page leaves them, with and without an identifier
StoredPersonas ==
    {[persona EXCEPT !.user_id = user_id] : persona \in BudgetPersonas, user_id \in UserIds}

\* files found in the data directory when the service starts
FoundFiles ==
    {[name |-> ProfileFileName(PyStr("u1")), content |-> JsonFile([name |-> "Alice"])],
     [name |-> ProfileFileName(PyStr("u2")), content |-> GarbageFile]}

Disks ==
    {[writable |-> w, readable |-> r, files |-> files] :
        w \in BOOLEAN, r \in BOOLEAN, files \in SUBSET FoundFiles}

PersistenceInit ==
    /\ lightweight_mode = TRUE
    /\ sentiment_analyzer = "None"
    /\ query = ""
    /\ adapter_reply = NotCalled
    /\ result = NoCall
    /\ profile \in StoredPersonas
    /\ setter_call = NoCall
    /\ response = NoCall
    /\ summary = NoCall
    /\ insights = NoCall
    /\ calls = <<>>
    /\ goal_calls = <<>>
    /\ service_tables = ServiceTables
    /\ pc = "idle"
    /\ disk \in Disks
    /\ persistence_call = NoCall
    /\ session_state = NewSessionState
    /\ requests = <<>>

\* One call of save_profile(p), with the profile or with None in its place
SaveProfile ==
    /\ \E p \in {profile, PyNone} :
          LET call == save_profile(disk, p)
          IN  /\ disk' = call.disk
              /\ persistence_call' = [method  |-> "save_profile",
                                      arg     |-> p,
                                      before  |-> disk,
                                      outcome |-> call.outcome]
    /\ UNCHANGED analysis_vars
    /\ UNCHANGED profile_vars
    /\ UNCHANGED <<goal_calls, service_tables, pc, session_state, requests>>

\* One call of load_profile(user_id)
LoadProfile ==
    /\ \E user_id \in UserIds :
          persistence_call' = [method  |-> "load_profile",
                               arg     |-> user_id,
                               before  |-> disk,
                               outcome |-> load_profile(disk, user_id)]
    /\ UNCHANGED analysis_vars
    /\ UNCHANGED profile_vars
    /\ UNCHANGED <<goal_calls, service_tables, pc, disk, session_state, requests>>

PersistenceNext == SaveProfile \/ LoadProfile

PersistenceSpec == PersistenceInit /\ [][PersistenceNext]_vars

(***************************************************************************)
(* Shared state: one service instance and one profile serve any sequence   *)
(* of analyze_financial_query and generate_personalized_response calls.    *)
(* Neither method assigns to an attribute of self or of its arguments; the *)
(* dicts and lists they build are local to the call.                       *)
(***************************************************************************)
FramePersonas ==
    {[UserProfile EXCEPT !.user_type = user_type, !.name = PyStr("Alice")] :
        user_type \in {PyNone} \cup {Member("UserType", v) : v \in EnumValues["UserType"]}}

FrameInit ==
    /\ lightweight_mode = TRUE
    /\ sentiment_analyzer = "None"
    /\ query = ""
    /\ adapter_reply = NotCalled
    /\ result = NoCall
    /\ profile \in FramePersonas
    /\ setter_call = NoCall
    /\ response = NoCall
    /\ summary = NoCall
    /\ insights = NoCall
    /\ calls = <<>>
    /\ AppIdle

\* faulty variant: an adapter that raised is dropped from the instance
AnalyzeShared_DroppingAdapter ==
    /\ \E text \in SessionTexts, user_profile \in SessionProfiles,
          reply \in (IF sentiment_analyzer = "None" THEN {NotCalled} ELSE SessionReplies) :
          /\ query' = text
          /\ adapter_reply' = reply
          /\ result' = analyze_financial_query(text, user_profile, sentiment_analyzer, reply)
          /\ sentiment_analyzer' =
                IF reply.status = "raised" THEN "None" ELSE sentiment_analyzer
    /\ UNCHANGED <<lightweight_mode, service_tables>>
    /\ UNCHANGED profile_vars
    /\ UNCHANGED <<goal_calls, pc, disk, persistence_call, session_state, requests>>

\* One more call of analyze_financial_query(text, user_profile) on the instance
AnalyzeShared ==
    /\ \E text \in SessionTexts, user_profile \in SessionProfiles,
          reply \in (IF sentiment_analyzer = "None" THEN {NotCalled} ELSE SessionReplies) :
          /\ query' = text
          /\ adapter_reply' = reply
          /\ result' = analyze_financial_query(text, user_profile, sentiment_analyzer, reply)
    /\ UNCHANGED <<lightweight_mode, sentiment_analyzer, service_tables>>
    /\ UNCHANGED profile_vars
    /\ UNCHANGED <<goal_calls, pc, disk, persistence_call, session_state, requests>>

\* One more call of generate_personalized_response, on the last analysis
RespondShared ==
    /\ result.status = "returned"
    /\ \E user_profile \in {profile, PyNone} :
          response' = [query        |-> result.value,
                       user_profile |-> user_profile,
                       outcome      |-> generate_personalized_response(result.value,
                                                                       user_profile)]
    /\ UNCHANGED <<profile, setter_call, summary, insights, calls>>
    /\ UNCHANGED analysis_vars
    /\ UNCHANGED app_vars

\* the models are set up before the first call
FrameNext == SetLightweightMode \/ InitializeModels \/ AnalyzeShared \/ RespondShared

FrameSpec == FrameInit /\ [][FrameNext]_vars

(***************************************************************************)
(* One call of analyze_financial_query in steps.  _analyze_sentiment calls *)
(* self.sentiment_analyzer(text) when the adapter is loaded and waits for  *)
(* it; the code sets no timeout on the call and runs it in the caller's    *)
(* thread, so only the adapter ends the wait.  The steps of the service    *)
(* are taken whenever they can be; whether and when the adapter returns or *)
(* raises is the adapter's own.                                            *)
(***************************************************************************)
\* the adapter fields as __init__ and _initialize_models can leave them
ServiceSetups ==
    {[lightweight_mode |-> TRUE, sentiment_analyzer |-> "None"],
     [lightweight_mode |-> FALSE, sentiment_analyzer |-> "None"],
     [lightweight_mode |-> FALSE, sentiment_analyzer |-> "pipeline"]}

CallInit ==
    /\ \E setup \in ServiceSetups :
          /\ lightweight_mode = setup.lightweight_mode
          /\ sentiment_analyzer = setup.sentiment_analyzer
    /\ query \in Texts
    /\ adapter_reply = NotCalled
    /\ result = NoCall
    /\ profile = UserProfile
    /\ setter_call = NoCall
    /\ response = NoCall
    /\ summary = NoCall
    /\ insights = NoCall
    /\ calls = <<>>
    /\ AppIdle

\* analyze_financial_query is entered and _analyze_sentiment tests the adapter:
\* without one it goes on to the lexicon, with one it calls it
StartAnalysis ==
    /\ pc = "idle"
    /\ pc' = IF sentiment_analyzer = "None" THEN "after_adapter" ELSE "in_adapter"
    /\ UNCHANGED analysis_vars
    /\ UNCHANGED profile_vars
    /\ UNCHANGED <<goal_calls, service_tables, disk, persistence_call, session_state,
                   requests>>

\* self.sentiment_analyzer(text) returns or raises
AdapterReturns ==
    /\ pc = "in_adapter"
    /\ \E reply \in AdapterReplies : adapter_reply' = reply
    /\ pc' = "after_adapter"
    /\ UNCHANGED <<lightweight_mode, sentiment_analyzer, query, result>>
    /\ UNCHANGED profile_vars
    /\ UNCHANGED <<goal_calls, service_tables, disk, persistence_call, session_state,
                   requests>>

\* the rest of the call: the sentiment is taken from the reply or from the
\* lexicon, the query is classified and the FinancialQuery is returned
FinishAnalysis ==
    /\ pc = "after_adapter"
    /\ \E user_profile \in UserTypes :
          result' = analyze_financial_query(query, user_profile, sentiment_analyzer,
                                            adapter_reply)
    /\ pc' = "returned"
    /\ UNCHANGED <<lightweight_mode, sentiment_analyzer, query, adapter_reply>>
    /\ UNCHANGED profile_vars
    /\ UNCHANGED <<goal_calls, service_tables, disk, persistence_call, session_state,
                   requests>>

CallNext == StartAnalysis \/ AdapterReturns \/ FinishAnalysis

\* the step of CallNext that leaves "after_adapter": FinishAnalysis, which can
\* be taken whenever the call is there
Returns == pc = "after_adapter" /\ pc' = "returned"

\* The service's own steps are taken whenever they can be; nothing is assumed
\* of AdapterReturns.
CallSpec ==
    /\ CallInit
    /\ [][CallNext]_vars
    /\ WF_vars(StartAnalysis)
    /\ WF_pc(Returns)

(***************************************************************************)
(* The chat page, one run after the other: the profile page is filled in   *)
(* and left, the chat page is opened, inputs are typed and buttons of the  *)
(* sidebar are clicked.                                                    *)
(***************************************************************************)
\* st.text_input("Your Name"): the name may be left empty
PageNames == {"", "Alice"}

\* texts typed into st.chat_input
ChatInputs == {"How should I save money?", "hello"}

\* the suggestion buttons clicked, two of the four of show_chat_sidebar
SuggestionsClicked ==
    {"How much should I save each month?", "Should I invest in mutual funds or stocks?"}

\* the messages of the two quick actions
QuickActionMessages ==
    {"A good budgeting rule is 50/30/20: 50% needs, 30% wants, 20% savings.",
     "Start by saving 20% of your income, and build an emergency fund."}

\* One run of show_profile_setup: the name and the user type are the user's,
\* the other selectboxes and radios are left on their first option.
ShowProfileSetup ==
    /\ \E name \in PageNames, user_type \in EnumValues["UserType"] :
          LET user == IF "user_profile" \in session_state.keys THEN profile ELSE UserProfile
              named == [user EXCEPT !.name = PyStr(name)]
              typed == set_user_type(named, Member("UserType", user_type)).value
              aged == set_age_range(typed, Member("AgeRange", "18-25")).value
              paid == set_income_level(aged, Member("IncomeLevel", "0-15000")).value
              risked == set_risk_tolerance(paid, Member("RiskTolerance", "conservative")).value
          IN  profile' = set_communication_preference(
                             risked, Member("CommunicationStyle", "simple")).value
    /\ session_state' = [session_state EXCEPT !.keys = @ \cup {"user_profile"}]
    /\ requests' = <<>>
    /\ UNCHANGED <<setter_call, response, summary, insights, calls>>
    /\ UNCHANGED analysis_vars
    /\ UNCHANGED <<goal_calls, service_tables, pc, disk, persistence_call>>

\* what a run of the chat page can be started by: the page is opened or shown
\* again, a text is typed into st.chat_input, a button of the sidebar is clicked
Triggers ==
    {NoTrigger, [kind |-> "clear_chat"]}
    \cup {[kind |-> "chat_input", text |-> text] : text \in ChatInputs}
    \cup {[kind |-> "quick_action", text |-> text] : text \in QuickActionMessages}
    \cup {[kind |-> "suggestion", text |-> text] : text \in SuggestionsClicked}

\* the number of messages the trigger adds when it is handled
MessagesAdded(trigger) ==
    IF trigger.kind \in {"chat_input", "suggestion"} THEN 2
    ELSE IF trigger.kind = "quick_action" THEN 1
    ELSE 0

\* One run of the chat page.  A widget can be triggered once the page has
\* shown its widgets, that is once the history exists; the history is
\* followed up to MaxMessages messages.
ShowChatInterface ==
    /\ \E trigger \in Triggers :
          /\ trigger # NoTrigger => "chat_history" \in session_state.keys
          /\ Len(session_state.chat_history) + MessagesAdded(trigger) <= MaxMessages
          /\ LET run == show_chat_interface(session_state, profile, trigger)
             IN  /\ session_state' = run.session_state
                 /\ requests' = <<[trigger  |-> trigger,
                                   before   |-> session_state,
                                   analysed |-> run.analysed,
                                   pc       |-> "done"]>>
    /\ UNCHANGED analysis_vars
    /\ UNCHANGED profile_vars
    /\ UNCHANGED <<goal_calls, service_tables, pc, disk, persistence_call>>

ChatInit ==
    /\ lightweight_mode = TRUE
    /\ sentiment_analyzer = "None"
    /\ query = ""
    /\ adapter_reply = NotCalled
    /\ result = NoCall
    /\ profile = UserProfile
    /\ setter_call = NoCall
    /\ response = NoCall
    /\ summary = NoCall
    /\ insights = NoCall
    /\ calls = <<>>
    /\ AppIdle

ChatNext == ShowProfileSetup \/ ShowChatInterface

ChatSpec == ChatInit /\ [][ChatNext]_vars

(***************************************************************************)
(* Concurrent handling: MaxRequests inputs of one session are handled at   *)
(* the same time, each by its own run of the handler on the same           *)
(* st.session_state.  The handler takes no lock: between its two calls of  *)
(* add_message_to_chat, while it analyses and answers, the other runs go   *)
(* on.  list.append itself is atomic.                                      *)
(***************************************************************************)
\* profiles the profile page has completed
CompleteProfiles ==
    {[UserProfile EXCEPT
         !.name = PyStr("Alice"),
         !.user_type = Member("UserType", user_type),
         !.age_range = Member("AgeRange", "18-25"),
         !.income_level = Member("IncomeLevel", "0-15000"),
         !.risk_tolerance = Member("RiskTolerance", "conservative"),
         !.communication_preference = Member("CommunicationStyle", "simple")] :
        user_type \in EnumValues["UserType"]}

\* the inputs under way: typed texts and clicked suggestions, not yet handled
ReceivedRequests ==
    {[trigger |-> [kind |-> "chat_input", text |-> text], pc |-> "received"] :
        text \in ChatInputs}
    \cup {[trigger |-> [kind |-> "suggestion", text |-> text], pc |-> "received"] :
            text \in SuggestionsClicked}

\* the chat page has been opened with a complete profile
ConcurrentInit ==
    /\ lightweight_mode = TRUE
    /\ sentiment_analyzer = "None"
    /\ query = ""
    /\ adapter_reply = NotCalled
    /\ result = NoCall
    /\ profile \in CompleteProfiles
    /\ setter_call = NoCall
    /\ response = NoCall
    /\ summary = NoCall
    /\ insights = NoCall
    /\ calls = <<>>
    /\ goal_calls = <<>>
    /\ service_tables = ServiceTables
    /\ pc = "idle"
    /\ disk = EmptyDisk
    /\ persistence_call = NoCall
    /\ session_state = show_chat_interface(
                           [NewSessionState EXCEPT !.keys = {"user_profile"}],
                           profile, NoTrigger).session_state
    /\ requests \in [1..MaxRequests -> ReceivedRequests]

\* add_message_to_chat("user", user_input) of one of the runs
AppendUserMessage ==
    /\ \E i \in DOMAIN requests :
          /\ requests[i].pc = "received"
          /\ session_state' = add_message_to_chat(session_state, "user",
                                                  requests[i].trigger.text)
          /\ requests' = [requests EXCEPT ![i].pc = "thinking"]
    /\ UNCHANGED analysis_vars
    /\ UNCHANGED profile_vars
    /\ UNCHANGED <<goal_calls, service_tables, pc, disk, persistence_call>>

\* the analysis and the response of one of the runs, and its
\* add_message_to_chat("assistant", response.content)
AppendAssistantMessage ==
    /\ \E i \in DOMAIN requests :
          /\ requests[i].pc = "thinking"
          /\ session_state' = add_message_to_chat(session_state, "assistant",
                                                  Answer(requests[i].trigger.text, profile))
          /\ requests' = [requests EXCEPT ![i].pc = "done"]
    /\ UNCHANGED analysis_vars
    /\ UNCHANGED profile_vars
    /\ UNCHANGED <<goal_calls, service_tables, pc, disk, persistence_call>>

ConcurrentNext == AppendUserMessage \/ AppendAssistantMessage

ConcurrentSpec == ConcurrentInit /\ [][ConcurrentNext]_vars

(***************************************************************************)
(* Properties.  The reference quantities below are stated from the text of *)
(* the query alone, independently of the methods above.                    *)
(***************************************************************************)
Analysed == result.status = "returned"

AdapterAbsent == sentiment_analyzer = "None"

\* the adapter raised, returned nothing, or returned a dict without label or score
AdapterFailed(reply) ==
    \/ reply.status = "raised"
    \/ /\ reply.status = "returned"
       /\ \/ Len(reply.value) = 0
          \/ "label" \notin DOMAIN reply.value[1]
          \/ "score" \notin DOMAIN reply.value[1]

\* number of keywords of the i-th intent contained in the lower-cased text
MatchCount(text_lower, i) ==
    Cardinality({k \in 1..Len(financial_intents[i].keywords) :
                    Contains(text_lower, financial_intents[i].keywords[k])})

MatchCounts(text_lower) == [i \in 1..Len(financial_intents) |-> MatchCount(text_lower, i)]

MaxOf(f) == CHOOSE m \in {f[i] : i \in DOMAIN f} : \A i \in DOMAIN f : f[i] <= m

LexiconIntents == {financial_intents[i].intent : i \in 1..Len(financial_intents)}

\* C1: when some keyword matches, the returned intent has the highest
\* keyword-match count of all lexicon intents, and of the intents sharing that
\* count it is the one declared earliest in financial_intents.
C1_HighestCountEarliestWins ==
    Analysed =>
        LET c == MatchCounts(Lower(query))
            top == MaxOf(c)
        IN  top > 0 =>
                \E i \in DOMAIN c :
                    /\ result.value.intent = financial_intents[i].intent
                    /\ c[i] = top
                    /\ \A j \in 1..(i - 1) : c[j] < top

\* two intents share the highest non-zero count and the call has returned
C1_Witness ==
    /\ Analysed
    /\ LET c == MatchCounts(Lower(query))
       IN  \E i, j \in DOMAIN c : i < j /\ c[i] = c[j] /\ c[i] = MaxOf(c) /\ c[i] > 0

\* C2: a query in which no intent keyword matches is analysed as intent
\* "general_financial_advice", category "general".
C2_NoMatchIsGeneral ==
    Analysed /\ MaxOf(MatchCounts(Lower(query))) = 0 =>
        /\ result.value.intent = "general_financial_advice"
        /\ result.value.category = "general"

\* a non-empty query without any keyword match has been analysed
C2_Witness ==
    /\ Analysed
    /\ query # ""
    /\ MaxOf(MatchCounts(Lower(query))) = 0
    /\ result.value.intent = "general_financial_advice"

Categories == {"savings", "investment", "budgeting", "debt", "tax", "financial", "general"}

\* c is the part of s before its first '_'
IsPartBeforeFirstSeparator(c, s) ==
    /\ ~Contains(c, "_")
    /\ Len(c) < Len(s)
    /\ SubSeq(s, 1, Len(c) + 1) = c \o "_"

\* C3: every returned FinancialQuery has an intent of the lexicon or
\* "general_financial_advice", and its category is the part of the intent
\* before the first '_', one of the seven categories.
C3_IntentAndCategory ==
    Analysed =>
        /\ result.value.intent \in LexiconIntents \cup {"general_financial_advice"}
        /\ IsPartBeforeFirstSeparator(result.value.category, result.value.intent)
        /\ result.value.category \in Categories

\* a lexicon intent was returned with its category
C3_Witness ==
    /\ Analysed
    /\ result.value.intent = "tax_planning"
    /\ result.value.category = "tax"

PositiveHits(text_lower) ==
    Cardinality({i \in 1..Len(positive_words) : Contains(text_lower, positive_words[i])})

NegativeHits(text_lower) ==
    Cardinality({i \in 1..Len(negative_words) : Contains(text_lower, negative_words[i])})

\* C4: without an adapter the sentiment is decided by the two lexicon counts:
\* more positive gives positive 0.7, more negative gives negative 0.7, equal
\* counts give neutral 0.6.
C4_LexiconSentiment ==
    Analysed /\ AdapterAbsent =>
        LET text_lower == Lower(query)
            pos == PositiveHits(text_lower)
            neg == NegativeHits(text_lower)
            got == <<result.value.sentiment, result.value.confidence>>
        IN  /\ pos > neg => got = <<"positive", 70>>
            /\ neg > pos => got = <<"negative", 70>>
            /\ pos = neg => got = <<"neutral", 60>>

\* both lexicons hit, the positive one more often
C4_Witness ==
    /\ Analysed
    /\ AdapterAbsent
    /\ NegativeHits(Lower(query)) > 0
    /\ PositiveHits(Lower(query)) > NegativeHits(Lower(query))
    /\ result.value.sentiment = "positive"

\* The ways of choosing the negative words: the k-th sends the i-th positive
\* word to the (i + k)-th negative word, cyclically, so that every pair of a
\* positive and a negative word is tried.
SwapChoices == 0..(Len(negative_words) - 1)

RECURSIVE SwapFrom(_, _, _)
SwapFrom(s, k, i) ==
    IF i > Len(positive_words) THEN s
    ELSE SwapFrom(Replace(s, positive_words[i],
                          negative_words[((i + k) % Len(negative_words)) + 1]),
                  k, i + 1)

\* the lower-cased text with each positive lexicon word replaced by a negative one
Swapped(text, k) == SwapFrom(Lower(text), k, 1)

LabelledPositive == Analysed /\ AdapterAbsent /\ result.value.sentiment = "positive"

\* C5 as stated: an input labelled positive, once each positive lexicon word in
\* it is replaced by a negative lexicon word, is labelled negative with 0.7.
C5_SwapFlipsLabel ==
    LabelledPositive =>
        \A k \in SwapChoices :
            _fallback_sentiment_analysis(Swapped(query, k)) = [label |-> "negative", score |-> 70]

\* C5 amended: the same, for the replacements that leave no positive lexicon
\* word in the text.
C5_SwapFlipsLabelUnlessPositiveRemains ==
    LabelledPositive =>
        \A k \in SwapChoices :
            LET swapped == Swapped(query, k)
            IN  PositiveHits(swapped) = 0 =>
                    _fallback_sentiment_analysis(swapped) = [label |-> "negative", score |-> 70]

\* a positive input that also holds a negative word, swapped clean
C5_Witness ==
    /\ LabelledPositive
    /\ NegativeHits(Lower(query)) > 0
    /\ \A k \in SwapChoices : PositiveHits(Swapped(query, k)) = 0

\* the financial terms among the tokens of the lower-cased text, in text order
FinancialTokens(text) == SelectSeq(re_findall_words(Lower(text)), IsFinancialTerm)

\* C6: when some token is a financial term, the keywords are at most 5, each a
\* financial term, and they are the first financial tokens of the text in the
\* order in which they occur.
C6_KeywordsFirstFiveInOrder ==
    Analysed /\ Len(FinancialTokens(query)) > 0 =>
        LET kw == result.value.keywords
            ft == FinancialTokens(query)
        IN  /\ Len(kw) <= 5
            /\ \A i \in 1..Len(kw) : \E t \in 1..Len(financial_terms) : kw[i] = financial_terms[t]
            /\ Len(kw) = (IF Len(ft) < 5 THEN Len(ft) ELSE 5)
            /\ \A i \in 1..Len(kw) : kw[i] = ft[i]

\* more than five financial tokens, five keywords returned
C6_Witness ==
    /\ Analysed
    /\ Len(FinancialTokens(query)) > 5
    /\ Len(result.value.keywords) = 5

ScoreMissing(reply) ==
    /\ reply.status = "returned"
    /\ Len(reply.value) > 0
    /\ "label" \in DOMAIN reply.value[1]
    /\ "score" \notin DOMAIN reply.value[1]

EntityCount(entities, entity_type, pattern) ==
    Cardinality({i \in 1..Len(entities) :
                    entities[i].entity = entity_type /\ entities[i].value = pattern})

\* C8: entity extraction emits exactly one record, of confidence 0.8, for every
\* (entity type, pattern) pair whose pattern the lower-cased text contains, and
\* none for the others; overlapping patterns each get their record.
C8_OneEntityPerMatchingPattern ==
    Analysed /\ ~ScoreMissing(adapter_reply) =>
        LET es == result.value.entities
            text_lower == Lower(query)
        IN  /\ \A t \in 1..Len(entity_patterns) :
                  \A k \in 1..Len(entity_patterns[t].patterns) :
                      EntityCount(es, entity_patterns[t].entity, entity_patterns[t].patterns[k])
                          = (IF Contains(text_lower, entity_patterns[t].patterns[k]) THEN 1 ELSE 0)
            /\ \A i \in 1..Len(es) :
                  /\ es[i].confidence = 80
                  /\ \E t \in 1..Len(entity_patterns) :
                        /\ es[i].entity = entity_patterns[t].entity
                        /\ \E k \in 1..Len(entity_patterns[t].patterns) :
                              es[i].value = entity_patterns[t].patterns[k]

\* 'month' and 'monthly' are both reported for one occurrence of "monthly"
C8_Witness ==
    /\ Analysed
    /\ EntityCount(result.value.entities, "TIME", "month") = 1
    /\ EntityCount(result.value.entities, "TIME", "monthly") = 1

EmptyTextAnalysis ==
    /\ result.value.intent = "general_financial_advice"
    /\ result.value.sentiment = "neutral"
    /\ result.value.confidence = 60

\* C9 as stated: the call never raises, and the empty text is analysed as
\* general_financial_advice, neutral, 0.6.
C9_NeverRaisesEmptyIsNeutral ==
    /\ result.status # "raised"
    /\ Analysed /\ query = "" => EmptyTextAnalysis

\* C9 amended: the call never raises, and the empty text is analysed as
\* general_financial_advice, neutral, 0.6 when the adapter is absent or fails.
C9_NeverRaisesEmptyIsNeutralWithoutAdapter ==
    /\ result.status # "raised"
    /\ Analysed /\ query = "" /\ (AdapterAbsent \/ AdapterFailed(adapter_reply))
          => EmptyTextAnalysis

\* the empty text analysed after the adapter's reply made the try block raise
C9_Witness ==
    /\ Analysed
    /\ query = ""
    /\ ScoreMissing(adapter_reply)
    /\ EmptyTextAnalysis

\* C10: when the adapter is present and fails, the call returns the
\* FinancialQuery it returns when the adapter is absent.
C10_FailureSameAsAbsence ==
    Analysed /\ ~AdapterAbsent /\ AdapterFailed(adapter_reply) =>
        \A user_profile \in UserTypes :
            result = analyze_financial_query(query, user_profile, "None", NotCalled)

Sentiments == {"positive", "neutral", "negative"}

\* C11: every returned FinancialQuery has a sentiment among positive, neutral
\* and negative, with or without an adapter and whatever label it returns.
C11_SentimentThreeWay == Analysed => result.value.sentiment \in Sentiments

\* the field each setter writes and the enum class of the field
SetterField ==
    [set_user_type                |-> "user_type",
     set_age_range                |-> "age_range",
     set_income_level             |-> "income_level",
     set_risk_tolerance           |-> "risk_tolerance",
     set_communication_preference |-> "communication_preference"]

FieldEnum ==
    [user_type                |-> "UserType",
     age_range                |-> "AgeRange",
     income_level             |-> "IncomeLevel",
     risk_tolerance           |-> "RiskTolerance",
     communication_preference |-> "CommunicationStyle"]

\* a raw string case-folded, its separators normalised
Normalized(raw) == Replace(Lower(raw), "_", "-")

SetterCalled == setter_call # NoCall

RawStringGiven == SetterCalled /\ setter_call.value.type = "str"

\* C20: an enum setter given a raw string either stores the member of the
\* field's enum that the case-folded, separator-normalised string names, or
\* raises and leaves the field as it was; and after any sequence of setter
\* calls every enum field is unset or a member of its enum.
C20_SetterStoresNamedMemberOrFails ==
    /\ RawStringGiven =>
          LET field == SetterField[setter_call.setter]
              cls   == FieldEnum[field]
              name  == Normalized(setter_call.value.value)
          IN  \/ /\ setter_call.outcome.status = "returned"
                 /\ name \in EnumValues[cls]
                 /\ profile[field] = Member(cls, name)
              \/ /\ setter_call.outcome.status = "raised"
                 /\ profile[field] = setter_call.before[field]
    /\ \A field \in DOMAIN FieldEnum :
          \/ profile[field] = PyNone
          \/ /\ profile[field].type = FieldEnum[field]
             /\ profile[field].value \in EnumValues[FieldEnum[field]]

\* a raw string that differs from the value it names was stored as the member,
\* and a later unknown string left a set field as it was
C20_Witness ==
    /\ profile.age_range = Member("AgeRange", "26-35")
    /\ profile.risk_tolerance = Member("RiskTolerance", "aggressive")
    /\ setter_call.setter = "set_user_type"
    /\ setter_call.value = PyStr("teacher")
    /\ setter_call.outcome = Raised("ValueError")
    /\ setter_call.before.user_type = Member("UserType", "student")
    /\ profile.user_type = Member("UserType", "student")

Responded == response # NoCall

\* the call was given a UserProfile and an object with a category
WellFormedCall ==
    /\ Responded
    /\ response.user_profile.type = "UserProfile"
    /\ "category" \in DOMAIN response.query

Student == Member("UserType", "student")

Professional == Member("UserType", "professional")

\* C12: for every query, a Student profile is answered with tone "friendly and
\* educational" and complexity "simple", a Professional profile with tone
\* "professional and detailed" and complexity "advanced", and a profile without
\* user_type with the generic response, whose only recommendation asks to
\* complete the profile.
C12_DispatchOnUserType ==
    WellFormedCall =>
        LET user_type == response.user_profile.user_type
            answer == response.outcome.value
        IN  /\ response.outcome.status = "returned"
            /\ user_type = Student =>
                  /\ answer.tone = "friendly and educational"
                  /\ answer.complexity_level = "simple"
            /\ user_type = Professional =>
                  /\ answer.tone = "professional and detailed"
                  /\ answer.complexity_level = "advanced"
            /\ user_type \notin {Student, Professional} =>
                  /\ Len(answer.recommendations) = 1
                  /\ Contains(answer.recommendations[1], "Complete your user profile")
                  /\ answer.tone = "helpful"

\* a Professional profile was answered for a category no bank knows
C12_Witness ==
    /\ WellFormedCall
    /\ response.user_profile.user_type = Professional
    /\ response.query.category = "SAVINGS"
    /\ response.outcome.value.complexity_level = "advanced"

\* the categories that have a bucket in each bank, and the bank's default
StudentBuckets == {"savings", "investment", "budgeting"}

ProfessionalBuckets == {"investment", "savings"}

\* the response is built from the given bucket
BuiltFrom(answer, bucket, default_follow_ups) ==
    /\ answer.content = Strip(bucket["content"])
    /\ answer.recommendations = DictGet(bucket, "recommendations", <<>>)
    /\ answer.additional_resources = DictGet(bucket, "resources", <<>>)
    /\ answer.follow_up_questions = DictGet(bucket, "follow_ups", default_follow_ups)

\* C13: within a profile's bank the response is built from the bucket of the
\* query's category, and from the bank's default bucket, "savings" for a
\* Student and "investment" for a Professional, when the category has none.
C13_BucketByCategoryOrDefault ==
    WellFormedCall =>
        LET user_profile == response.user_profile
            category == response.query.category
            answer == response.outcome.value
        IN  /\ user_profile.user_type = Student =>
                  LET bank == student_base_responses(
                                  IF user_profile.name \in {PyNone, PyStr("")}
                                  THEN "there" ELSE user_profile.name.value)
                      chosen == IF category \in StudentBuckets THEN category ELSE "savings"
                  IN  BuiltFrom(answer, bank[chosen], <<>>)
            /\ user_profile.user_type = Professional =>
                  LET bank == professional_base_responses(
                                  IF user_profile.risk_tolerance = PyNone
                                  THEN "moderate" ELSE user_profile.risk_tolerance.value)
                      chosen == IF category \in ProfessionalBuckets THEN category ELSE "investment"
                  IN  BuiltFrom(answer, bank[chosen],
                                <<"What's your current asset allocation?",
                                  "Are you maximizing all tax-advantaged accounts?",
                                  "Would you like specific fund recommendations?">>)

\* a Student asked about a loan: category "debt" of the analysis, answered
\* from the "savings" bucket
C13_Witness ==
    /\ WellFormedCall
    /\ Analysed
    /\ response.query = result.value
    /\ response.user_profile.user_type = Student
    /\ response.query.category = "debt"
    /\ Contains(response.outcome.value.content, "saving money as a student")

\* the call cannot be answered from the templates: None was passed as the
\* profile, or as the query to a profile that has a bank
InternalFailure ==
    \/ "user_type" \notin DOMAIN response.user_profile
    \/ /\ response.user_profile.user_type \in {Student, Professional}
       /\ "category" \notin DOMAIN response.query

\* C14: generate_personalized_response never raises: whatever the query and
\* the profile, it returns a PersonalizedResponse with non-empty content, and
\* on an internal failure the fixed response that asks to rephrase.
C14_NeverRaisesFallbackOnFailure ==
    Responded =>
        /\ response.outcome.status = "returned"
        /\ Len(response.outcome.value.content) > 0
        /\ InternalFailure =>
              /\ Contains(response.outcome.value.content, "Could you please rephrase your question")
              /\ response.outcome.value = _generate_fallback_response(response.query)

\* None was passed as the query of a Student and the fallback came back
C14_Witness ==
    /\ Responded
    /\ response.query = PyNone
    /\ response.user_profile.type = "UserProfile"
    /\ response.user_profile.user_type = Student
    /\ response.outcome.status = "returned"
    /\ Contains(response.outcome.value.content, "rephrase")

\* the query was analysed and answered for the session's profile
EndToEnd ==
    /\ Analysed
    /\ Responded
    /\ response.query = result.value
    /\ response.user_profile = profile

\* C19: analysed and answered, "How should I save money?" of a Student has
\* intent savings_advice, category savings, tone "friendly and educational" and
\* some recommendation; "What investment options are good for beginners?" of a
\* Professional has category investment and tone "professional and detailed".
C19_ReferenceScenarios ==
    EndToEnd =>
        /\ query = "How should I save money?" /\ profile.user_type = Student =>
              /\ result.value.intent = "savings_advice"
              /\ result.value.category = "savings"
              /\ response.outcome.status = "returned"
              /\ response.outcome.value.tone = "friendly and educational"
              /\ Len(response.outcome.value.recommendations) > 0
        /\ query = "What investment options are good for beginners?"
              /\ profile.user_type = Professional =>
              /\ result.value.category = "investment"
              /\ response.outcome.status = "returned"
              /\ response.outcome.value.tone = "professional and detailed"

\* the Student scenario has run
C19_Witness ==
    /\ EndToEnd
    /\ query = "How should I save money?"
    /\ profile.user_type = Student
    /\ profile.name = PyStr("Alice")
    /\ Contains(response.outcome.value.content, "Hey Alice!")

\* the budget summary was asked for a Student or Professional profile
Summarised ==
    /\ summary # NoCall
    /\ summary.user_profile.type = "UserProfile"
    /\ summary.user_profile.user_type \in {Student, Professional}

\* the amount held by a profile field, 0 when it is unset
AmountOf(x) == IF x = PyNone THEN 0 ELSE x.value

\* tenths is s / e rounded to one decimal place
IsRoundedToTenths(tenths, s, e) ==
    LET diff == 10 * s - tenths * e
    IN  2 * diff <= e /\ 2 * diff >= 0 - e

\* C15: the summary's emergency-fund coverage is current_savings divided by
\* monthly_expenses, shown to one decimal place (1200 and 800 give 1.5); with
\* monthly_expenses 0 or unset the coverage is 0 and the summary is produced
\* without an error.
C15_EmergencyCoverage ==
    Summarised =>
        LET e == AmountOf(summary.user_profile.monthly_expenses)
            s == AmountOf(summary.user_profile.current_savings)
            coverage == savings_months(s, e)
            shown == summary.outcome.value.emergency
        IN  /\ summary.outcome.status = "returned"
            /\ "emergency" \in DOMAIN summary.outcome.value
            /\ coverage.status = "returned"
            /\ e > 0 => coverage.value.num * e = s * coverage.value.den
            /\ e > 0 /\ s > 0 =>
                  /\ IsRoundedToTenths(shown.months, s, e)
                  /\ (s = 1200 /\ e = 800) => shown.months = 15
            /\ e = 0 =>
                  /\ coverage.value.num = 0
                  /\ "months" \in DOMAIN shown => shown.months = 0

\* a Student with savings 1200 and expenses 800 is shown 1.5 months
C15_Witness ==
    /\ Summarised
    /\ summary.user_profile.user_type = Student
    /\ summary.user_profile.monthly_expenses = PyNum(800)
    /\ summary.user_profile.current_savings = PyNum(1200)
    /\ summary.outcome.value.emergency = [line |-> "Emergency Coverage", months |-> 15]

\* n / d rounded to the nearest integer
IsRounded(shown, n, d) ==
    LET diff == n - shown * d
    IN  2 * diff <= d /\ 2 * diff >= 0 - d

\* C16: for every profile, the budget summary has one goal entry per goal, in
\* the order the goals were added, and each shows target_amount divided by
\* max(monthly_expenses * 0.1, 25) as the months to the goal.
C16_MonthsToGoalPerGoal ==
    summary # NoCall /\ summary.user_profile.type = "UserProfile" =>
        LET goals == summary.user_profile.financial_goals
            e == AmountOf(summary.user_profile.monthly_expenses)
            shown == summary.outcome.value
        IN  Len(goals) > 0 =>
                /\ "goal_tracking" \in DOMAIN shown
                /\ Len(shown.goal_tracking) = Len(goals)
                /\ \A i \in 1..Len(goals) :
                      /\ shown.goal_tracking[i].target_amount = goals[i].target_amount
                      /\ IF e > 250
                         THEN IsRounded(shown.goal_tracking[i].months_to_goal,
                                        10 * goals[i].target_amount, e)
                         ELSE IsRounded(shown.goal_tracking[i].months_to_goal,
                                        goals[i].target_amount, 25)

Asked == insights # NoCall

\* C17: get_spending_insights returns, for a Student, a Professional, a profile
\* without user_type and for None in place of the profile, a list of at least
\* one and at most 6 non-empty strings, and never raises.
C17_InsightsOneToSix ==
    Asked =>
        /\ insights.outcome.status = "returned"
        /\ Len(insights.outcome.value) >= 1
        /\ Len(insights.outcome.value) <= 6
        /\ \A i \in 1..Len(insights.outcome.value) : Len(insights.outcome.value[i]) > 0

\* None was passed in place of the profile
C17_Witness ==
    /\ Asked
    /\ insights.user_profile = PyNone
    /\ insights.outcome = Returned(<<"Complete your profile for personalized spending insights!">>)

FoldedMatchCount(text, i) ==
    Cardinality({k \in 1..Len(financial_intents[i].keywords) :
                    Contains(Lower(text), Lower(financial_intents[i].keywords[k]))})

FoldedMatchCounts(text) ==
    [i \in 1..Len(financial_intents) |-> FoldedMatchCount(text, i)]

\* C23: keyword matching is case-insensitive substring containment: every
\* keyword whose case-folded form occurs anywhere in the case-folded query
\* counts as one match for its intent, so the returned intent is the earliest
\* of the intents with the highest such count whenever that count is not zero.
C23_CaseInsensitiveSubstringMatch ==
    Analysed =>
        LET c == FoldedMatchCounts(query)
            top == MaxOf(c)
        IN  top > 0 =>
                \E i \in DOMAIN c :
                    /\ result.value.intent = financial_intents[i].intent
                    /\ c[i] = top
                    /\ \A j \in 1..(i - 1) : c[j] < top

\* C29: for every persona kind and every query category, the
\* PersonalizedResponse that generate_personalized_response returns for an
\* analysed query has a non-empty recommendations list.
C29_RecommendationsNeverEmpty ==
    Responded /\ WellFormedCall =>
        /\ response.outcome.status = "returned"
        /\ Len(response.outcome.value.recommendations) > 0

\* the goal that a call with these arguments adds
GoalOf(args) == FinancialGoal(args[1], args[2], args[3], args[4])

\* C21: add_financial_goal only appends: the goals list holds the goals of
\* the calls made, in the order of the calls; each call returned a profile
\* whose list is the list before the call with the new goal at its end, and
\* whose other fields are those before the call.
C21_GoalsAppendOnly ==
    /\ Len(profile.financial_goals) = Len(goal_calls)
    /\ \A i \in DOMAIN goal_calls :
          LET c == goal_calls[i]
              n == Len(c.before.financial_goals)
          IN  /\ profile.financial_goals[i] = GoalOf(c.args)
              /\ Len(c.after.financial_goals) = n + 1
              /\ SubSeq(c.after.financial_goals, 1, n) = c.before.financial_goals
              /\ c.after.financial_goals[n + 1] = GoalOf(c.args)
              /\ \A field \in (DOMAIN c.before) \ {"financial_goals"} :
                    c.after[field] = c.before[field]

\* two different goals were added, the expenses were set between the calls
C21_Witness ==
    /\ Len(goal_calls) = 2
    /\ goal_calls[1].args # goal_calls[2].args
    /\ goal_calls[1].after.monthly_expenses = PyNone
    /\ goal_calls[2].before.monthly_expenses # PyNone
    /\ profile.financial_goals = <<GoalOf(goal_calls[1].args), GoalOf(goal_calls[2].args)>>

\* C26: every goal of the profile has a non-negative target_amount and a
\* priority that is one of High, Medium and Low.
C26_GoalsWellFormed ==
    \A i \in DOMAIN profile.financial_goals :
        /\ profile.financial_goals[i].target_amount >= 0
        /\ profile.financial_goals[i].priority \in {"High", "Medium", "Low"}

Saved == persistence_call # NoCall /\ persistence_call.method = "save_profile"

Loaded == persistence_call # NoCall /\ persistence_call.method = "load_profile"

\* C22: save_profile and load_profile never raise: save_profile returns a
\* boolean, False when its try block failed; load_profile returns a profile
\* or None, None when its try block failed.
C22_PersistenceNeverRaises ==
    /\ Saved =>
          /\ persistence_call.outcome.status = "returned"
          /\ persistence_call.outcome.value \in BOOLEAN
          /\ save_try(persistence_call.before, persistence_call.arg).outcome.status = "raised"
                => persistence_call.outcome.value = FALSE
    /\ Loaded =>
          /\ persistence_call.outcome.status = "returned"
          /\ load_try(persistence_call.before, persistence_call.arg).status = "raised"
                => persistence_call.outcome.value = PyNone

\* a file that is not JSON was loaded from a directory that refuses writes
C22_Witness ==
    /\ Loaded
    /\ ~disk.writable
    /\ disk.readable
    /\ persistence_call.arg = PyStr("u2")
    /\ FileExists(disk, ProfileFileName(PyStr("u2")))
    /\ persistence_call.outcome = Returned(PyNone)

\* C28: a profile with an identifier, saved to a directory that accepts
\* writes, is reported saved, and loading its identifier from the directory
\* as the save left it returns the profile.
C28_SaveLoadRoundTrip ==
    /\ Saved
    /\ persistence_call.arg # PyNone
    /\ persistence_call.arg.user_id # PyNone
    /\ persistence_call.before.writable
    /\ disk.readable
    => /\ persistence_call.outcome = Returned(TRUE)
       /\ load_profile(disk, persistence_call.arg.user_id) = Returned(persistence_call.arg)

\* a step in which one of the two methods was called
CallStep == query' # query \/ adapter_reply' # adapter_reply \/ result' # result
                \/ response' # response

\* C25: a call of analyze_financial_query or of generate_personalized_response
\* leaves the intent lexicon, the response templates, the adapter fields of
\* the service and every field of the profile as they were before the call.
C25_CallsLeaveSharedStateUnchanged ==
    [][CallStep =>
          /\ service_tables' = service_tables
          /\ lightweight_mode' = lightweight_mode
          /\ sentiment_analyzer' = sentiment_analyzer
          /\ profile' = profile]_vars

\* with the adapter loaded, a query was analysed while the adapter raised and
\* was answered for the profile; tables, adapter and profile are as set up
C25_Witness ==
    /\ Analysed
    /\ adapter_reply = Raised("RuntimeError")
    /\ Responded
    /\ response.query = result.value
    /\ response.user_profile = profile
    /\ sentiment_analyzer = "pipeline"
    /\ service_tables = ServiceTables
    /\ profile \in FramePersonas

\* C24: a call of analyze_financial_query that waits for the adapter
\* eventually returns a FinancialQuery, whether or not the adapter ever
\* completes.
C24_AnalysisEventuallyReturns ==
    (pc = "in_adapter") ~> (pc = "returned" /\ Analysed)

\* a run of the chat page has ended and the profile page was not shown since
Ran == Len(requests) = 1 /\ requests[1].pc = "done"

LastRun == requests[1]

IsPrefix(a, b) == Len(a) <= Len(b) /\ SubSeq(b, 1, Len(a)) = a

\* the run analysed a query only with a complete profile in the session
AnalysedOnlyWhenComplete ==
    Ran /\ LastRun.analysed # <<>> =>
        "user_profile" \in session_state.keys /\ is_profile_complete(profile)

\* a handled input added the user's message and then a reply of the assistant
\* at the end of the history, and nothing else
InputAddsTwoMessages ==
    Ran /\ LastRun.trigger.kind \in {"chat_input", "suggestion"} /\ LastRun.analysed # <<>> =>
        LET before == LastRun.before.chat_history
            after == session_state.chat_history
        IN  /\ Len(after) = Len(before) + 2
            /\ SubSeq(after, 1, Len(before)) = before
            /\ after[Len(before) + 1] = Message("user", LastRun.trigger.text)
            /\ after[Len(before) + 2].role = "assistant"

\* a run other than Clear Chat kept the messages there were
OnlyClearChatRemoves ==
    Ran /\ LastRun.trigger.kind # "clear_chat" =>
        IsPrefix(LastRun.before.chat_history, session_state.chat_history)

\* the welcome messages get_welcome_message writes for a complete profile
WelcomeMessages ==
    {Message("assistant", get_welcome_message(
         [UserProfile EXCEPT !.name = PyStr(name), !.user_type = Member("UserType", user_type)])) :
        name \in PageNames \ {""}, user_type \in EnumValues["UserType"]}

\* C30 as stated: on the chat page, handled sequentially, a query is analysed
\* only when the profile is complete; a handled input appends the user's
\* message and then the assistant's reply and leaves the earlier messages;
\* only Clear Chat removes messages; and a history that is not empty starts
\* with the welcome message.
C30_ChatPageSequential ==
    /\ AnalysedOnlyWhenComplete
    /\ InputAddsTwoMessages
    /\ OnlyClearChatRemoves
    /\ session_state.chat_history # <<>> => session_state.chat_history[1] \in WelcomeMessages

\* C30 amended: as above, but the welcome message is the first message of the
\* history when the history is created, for the profile of that moment; it
\* stays first until Clear Chat is clicked, and is not written again after.
C30_ChatPageSequentialUntilCleared ==
    /\ AnalysedOnlyWhenComplete
    /\ InputAddsTwoMessages
    /\ OnlyClearChatRemoves
    /\ Ran /\ "chat_history" \notin LastRun.before.keys
           /\ "chat_history" \in session_state.keys =>
          /\ LastRun.trigger = NoTrigger
          /\ session_state.chat_history = <<Message("assistant", get_welcome_message(profile))>>

\* after Clear Chat an input was handled: the history is the user's message
\* and the reply, without a welcome message
C30_Witness ==
    /\ Ran
    /\ LastRun.trigger.kind = "chat_input"
    /\ LastRun.before.chat_history = <<>>
    /\ Len(session_state.chat_history) = 2
    /\ session_state.chat_history[1] = Message("user", LastRun.trigger.text)
    /\ session_state.chat_history[2] =
          Message("assistant", Answer(LastRun.trigger.text, profile))

\* C27: with inputs of one session handled at the same time, a user message
\* that is followed by a message is followed by its own reply, and once all
\* inputs are handled the history holds the welcome message and, for each
\* input, its message and its reply: none is missing and none is there twice.
C27_AppendsSerializedPerSession ==
    LET history == session_state.chat_history
    IN  /\ \A k \in 1..(Len(history) - 1) :
              history[k].role = "user" =>
                  history[k + 1] = Message("assistant", Answer(history[k].content, profile))
        /\ (\A i \in DOMAIN requests : requests[i].pc = "done") =>
              /\ Len(history) = 1 + 2 * Len(requests)
              /\ history[Len(history)].role = "assistant"

=============================================================================
